---- MODULE Spec2Model ----
(***************************************************************************)
(* PGN ingestion and opening classification of the chess toolkit:          *)
(*   parsePGN, analyzeMoves                    (game-analyzer.js)          *)
(*   splitEcoUrl, formatExtraMoves, parseMovesAndClocks,                   *)
(*   loadOpeningsDb, lookupOpening, getOpeningDataForGame,                 *)
(*   RatingsTracker, insertGame, main          (chess-fetcher.js)          *)
(*                                                                         *)
(* Text is a sequence of one-character strings, so that every regular      *)
(* expression of the source is modelled by the scan it performs.           *)
(***************************************************************************)
EXTENDS Integers, Sequences, FiniteSets, TLC

VARIABLES
    pc,             \* position of the running script
    pgn,            \* argument of parsePGN: the raw game text
    game,           \* what the input text was written from: a game's tags, plies and layout, or a URL's parts
    parsed,         \* result of parsePGN: [headers, moves]
    moves,          \* argument of analyzeMoves
    stats,          \* result of analyzeMoves
    ecoUrl,         \* argument of splitEcoUrl
    eco,            \* result of splitEcoUrl, with its formatted extra moves
    db,             \* argument of lookupOpening: the catalog mapping
    slug,           \* argument of lookupOpening
    opening,        \* result of lookupOpening
    openingsCache,  \* chess-fetcher.js:16
    lastCacheTime,  \* chess-fetcher.js:18
    now,            \* the wall clock read by Date.now()
    store,          \* the openings database file: its state ("missing", "unreadable", "badquery", "ok") and its rows
    calls,          \* loadOpeningsDb calls: their position, captured time and result
    reads,          \* number of times a call went to the backing store
    fetched,        \* per loadOpeningsDb call: the state of the store its read ended on
    gets,           \* getOpeningDataForGame calls: their position, argument, split and result
    ledger,         \* RatingsTracker.ledger: the last rating seen for each format
    table,          \* the games table of chess_games.db: game_id to stored row
    log,            \* the calculateRating calls made so far, with what each returned
    fetch           \* main: the run, the index of the next game, and the table the first run left

vars == <<pc, pgn, game, parsed, moves, stats, ecoUrl, eco, db, slug, opening,
          openingsCache, lastCacheTime, now, store, calls, reads, fetched, gets,
          ledger, table, log, fetch>>

pureVars == <<pgn, game, parsed, moves, stats, ecoUrl, eco, db, slug, opening>>
cacheVars == <<openingsCache, lastCacheTime, now, store, calls, reads, fetched, gets>>
ratingVars == <<ledger, table, log, fetch>>

null == "null"

----------------------------------------------------------------------------
(* Character classes of the regular expressions                            *)

Digits == {"0", "1", "2", "3", "4", "5", "6", "7", "8", "9"}
LowerLetters == {"a", "b", "c", "d", "e", "f", "g", "h", "i", "j", "k", "l", "m",
                 "n", "o", "p", "q", "r", "s", "t", "u", "v", "w", "x", "y", "z"}
UpperLetters == {"A", "B", "C", "D", "E", "F", "G", "H", "I", "J", "K", "L", "M",
                 "N", "O", "P", "Q", "R", "S", "T", "U", "V", "W", "X", "Y", "Z"}
Letters == LowerLetters \cup UpperLetters
AlphaNum == Letters \cup Digits
\* \w
WordChars == AlphaNum \cup {"_"}
\* \s (and the characters String.prototype.trim removes)
SpaceChars == {" ", "\n", "\t", "\r"}
\* [a-h1-8NBRQKOx=+#-]
MoveChars == {"a", "b", "c", "d", "e", "f", "g", "h",
              "1", "2", "3", "4", "5", "6", "7", "8",
              "N", "B", "R", "Q", "K", "O", "x", "=", "+", "#", "-"}
FileLetters == {"a", "b", "c", "d", "e", "f", "g", "h"}

----------------------------------------------------------------------------
(* String primitives                                                       *)

\* First index j >= i with s[j] outside class (Len(s)+1 when none): the end
\* of a greedy class* run starting at i.
RECURSIVE RunEnd(_, _, _)
RunEnd(s, i, class) ==
    IF i > Len(s) \/ s[i] \notin class THEN i ELSE RunEnd(s, i + 1, class)

\* First index j >= i with s[j] = c, or 0: the end of a [^c]* run.
RECURSIVE IndexOfChar(_, _, _)
IndexOfChar(s, i, c) ==
    IF i > Len(s) THEN 0
    ELSE IF s[i] = c THEN i ELSE IndexOfChar(s, i + 1, c)

\* Does the literal lit occur in s at index i?
StartsAt(s, i, lit) ==
    /\ i >= 1
    /\ i + Len(lit) - 1 <= Len(s)
    /\ \A k \in 1..Len(lit) : s[i + k - 1] = lit[k]

\* String.prototype.indexOf from index i (1-based; 0 when absent)
RECURSIVE IndexOf(_, _, _)
IndexOf(s, i, lit) ==
    IF i + Len(lit) - 1 > Len(s) THEN 0
    ELSE IF StartsAt(s, i, lit) THEN i ELSE IndexOf(s, i + 1, lit)

\* String.prototype.includes
Includes(s, lit) == IndexOf(s, 1, lit) # 0

\* String.prototype.startsWith
StartsWith(s, lit) == StartsAt(s, 1, lit)

\* String.prototype.substring(from) with a 1-based index
Substring(s, i) == SubSeq(s, i, Len(s))

\* String.prototype.trim
RECURSIVE TrimEnd(_)
TrimEnd(s) ==
    IF s # <<>> /\ s[Len(s)] \in SpaceChars THEN TrimEnd(SubSeq(s, 1, Len(s) - 1)) ELSE s
Trim(s) == TrimEnd(Substring(s, RunEnd(s, 1, SpaceChars)))

\* String.prototype.split on a literal separator
RECURSIVE Split(_, _)
Split(s, sep) ==
    LET k == IndexOf(s, 1, sep)
    IN  IF k = 0 THEN <<s>>
        ELSE <<SubSeq(s, 1, k - 1)>> \o Split(Substring(s, k + Len(sep)), sep)

\* Array.prototype.join
RECURSIVE Join(_, _)
Join(parts, sep) ==
    IF parts = <<>> THEN <<>>
    ELSE IF Len(parts) = 1 THEN parts[1]
    ELSE parts[1] \o sep \o Join(Substring(parts, 2), sep)

\* String.prototype.toLowerCase on the letters of the model
LowerOf(c) ==
    CASE c = "A" -> "a" [] c = "B" -> "b" [] c = "C" -> "c" [] c = "D" -> "d"
      [] c = "E" -> "e" [] c = "F" -> "f" [] c = "G" -> "g" [] c = "H" -> "h"
      [] c = "I" -> "i" [] c = "J" -> "j" [] c = "K" -> "k" [] c = "L" -> "l"
      [] c = "M" -> "m" [] c = "N" -> "n" [] c = "O" -> "o" [] c = "P" -> "p"
      [] c = "Q" -> "q" [] c = "R" -> "r" [] c = "S" -> "s" [] c = "T" -> "t"
      [] c = "U" -> "u" [] c = "V" -> "v" [] c = "W" -> "w" [] c = "X" -> "x"
      [] c = "Y" -> "y" [] c = "Z" -> "z" [] OTHER -> c
ToLowerCase(s) == [i \in 1..Len(s) |-> LowerOf(s[i])]

\* A global String.prototype.replace: every leftmost match of the pattern is
\* replaced by repl. MatchEnd(kind, s, i) is the index after the match of
\* pattern kind at i, or 0.
BraceCommentEnd(s, i) ==      \* /\{[^}]*\}/
    IF s[i] = "{" /\ IndexOfChar(s, i + 1, "}") # 0
    THEN IndexOfChar(s, i + 1, "}") + 1 ELSE 0
VariationEnd(s, i) ==         \* /\([^)]*\)/
    IF s[i] = "(" /\ IndexOfChar(s, i + 1, ")") # 0
    THEN IndexOfChar(s, i + 1, ")") + 1 ELSE 0
NagEnd(s, i) ==               \* /\$\d+/
    IF s[i] = "$" /\ RunEnd(s, i + 1, Digits) > i + 1
    THEN RunEnd(s, i + 1, Digits) ELSE 0
AnnotationEnd(s, i) ==        \* /[!?]+/
    IF s[i] \in {"!", "?"} THEN RunEnd(s, i, {"!", "?"}) ELSE 0
ResultEnd(s, i) ==            \* /1-0|0-1|1\/2-1\/2|\*/
    IF StartsAt(s, i, <<"1", "-", "0">>) THEN i + 3
    ELSE IF StartsAt(s, i, <<"0", "-", "1">>) THEN i + 3
    ELSE IF StartsAt(s, i, <<"1", "/", "2", "-", "1", "/", "2">>) THEN i + 7
    ELSE IF s[i] = "*" THEN i + 1
    ELSE 0
WhitespaceEnd(s, i) ==        \* /\s+/
    IF s[i] \in SpaceChars THEN RunEnd(s, i, SpaceChars) ELSE 0

MatchEnd(kind, s, i) ==
    CASE kind = "brace"  -> BraceCommentEnd(s, i)
      [] kind = "paren"  -> VariationEnd(s, i)
      [] kind = "nag"    -> NagEnd(s, i)
      [] kind = "annot"  -> AnnotationEnd(s, i)
      [] kind = "result" -> ResultEnd(s, i)
      [] kind = "space"  -> WhitespaceEnd(s, i)

RECURSIVE ReplaceFrom(_, _, _, _)
ReplaceFrom(kind, s, i, repl) ==
    IF i > Len(s) THEN <<>>
    ELSE LET e == MatchEnd(kind, s, i)
         IN  IF e # 0 THEN repl \o ReplaceFrom(kind, s, e, repl)
             ELSE <<s[i]>> \o ReplaceFrom(kind, s, i + 1, repl)
ReplaceAll(kind, s, repl) == ReplaceFrom(kind, s, 1, repl)

----------------------------------------------------------------------------
(* parsePGN  (game-analyzer.js:12-58)                                      *)

\* Faulty variant: the first write wins
SetHeader_FirstWins(headers, name, value) ==
    [n \in DOMAIN headers \cup {name} |-> IF n \in DOMAIN headers THEN headers[n] ELSE value]

\* headers[name] = value on a plain object: the last write wins
SetHeader(headers, name, value) ==
    [n \in DOMAIN headers \cup {name} |-> IF n = name THEN value ELSE headers[n]]

\* One attempt of /\[(\w+)\s+"([^"]+)"\]/ at index i
HeaderMatchAt(s, i) ==
    LET a == i + 1
        b == RunEnd(s, a, WordChars)
        c == RunEnd(s, b, SpaceChars)
        d == c + 1
        e == IndexOfChar(s, d, "\"")
    IN  IF /\ s[i] = "["
           /\ b > a
           /\ c > b
           /\ c <= Len(s) /\ s[c] = "\""
           /\ e > d
           /\ e + 1 <= Len(s) /\ s[e + 1] = "]"
        THEN [ok |-> TRUE, name |-> SubSeq(s, a, b - 1),
              value |-> SubSeq(s, d, e - 1), end |-> e + 2]
        ELSE [ok |-> FALSE, name |-> <<>>, value |-> <<>>, end |-> i + 1]

\* while ((match = headerRegex.exec(pgn)) !== null) headers[match[1]] = match[2]
RECURSIVE ScanHeaders(_, _, _)
ScanHeaders(s, i, headers) ==
    IF i > Len(s) THEN headers
    ELSE LET m == HeaderMatchAt(s, i)
         IN  IF m.ok THEN ScanHeaders(s, m.end, SetHeader(headers, m.name, m.value))
             ELSE ScanHeaders(s, i + 1, headers)

\* The loop over pgn.split('\n'): a blank line opens the move section when any
\* header was found in the text; later non-blank lines are appended.
RECURSIVE MovesSection(_, _, _, _)
MovesSection(lines, k, inMoves, headers) ==
    IF k > Len(lines) THEN <<>>
    ELSE IF Trim(lines[k]) = <<>>
         THEN MovesSection(lines, k + 1, inMoves \/ (DOMAIN headers # {}), headers)
         ELSE IF inMoves
              THEN <<" ">> \o lines[k] \o MovesSection(lines, k + 1, inMoves, headers)
              ELSE MovesSection(lines, k + 1, inMoves, headers)

\* The chain of replace calls and the final trim
CleanMoves(movesText) ==
    Trim(ReplaceAll("space",
           ReplaceAll("result",
             ReplaceAll("annot",
               ReplaceAll("nag",
                 ReplaceAll("paren",
                   ReplaceAll("brace", movesText, <<>>),
                 <<>>),
               <<>>),
             <<>>),
           <<>>),
         <<" ">>))

\* One attempt of /\d+\.\s*([a-h1-8NBRQKOx=+#-]+)\s*([a-h1-8NBRQKOx=+#-]+)?/ at i
MoveMatchAt(s, i) ==
    LET a == RunEnd(s, i, Digits)
        b == RunEnd(s, a + 1, SpaceChars)
        c == RunEnd(s, b, MoveChars)
        d == RunEnd(s, c, SpaceChars)
        e == RunEnd(s, d, MoveChars)
    IN  IF /\ a > i
           /\ a <= Len(s) /\ s[a] = "."
           /\ c > b
        THEN [ok |-> TRUE, m1 |-> SubSeq(s, b, c - 1),
              m2 |-> SubSeq(s, d, e - 1), end |-> IF e > d THEN e ELSE d]
        ELSE [ok |-> FALSE, m1 |-> <<>>, m2 |-> <<>>, end |-> i + 1]

\* while ((match = movePattern.exec(movesText)) !== null) { push match[1], match[2] }
RECURSIVE ScanMoves(_, _)
ScanMoves(s, i) ==
    IF i > Len(s) THEN <<>>
    ELSE LET m == MoveMatchAt(s, i)
         IN  IF m.ok
             THEN <<m.m1>> \o (IF m.m2 # <<>> THEN <<m.m2>> ELSE <<>>) \o ScanMoves(s, m.end)
             ELSE ScanMoves(s, i + 1)

parsePGN(text) ==
    IF text = <<>> THEN [headers |-> <<>>, moves |-> <<>>]
    ELSE LET headers == ScanHeaders(text, 1, <<>>)
             movesText == MovesSection(Split(text, <<"\n">>), 1, FALSE, headers)
         IN  [headers |-> headers, moves |-> ScanMoves(CleanMoves(movesText), 1)]

----------------------------------------------------------------------------
(* analyzeMoves  (game-analyzer.js:62-111)                                 *)

emptyStats ==
    [totalMoves |-> 0, captures |-> 0, checks |-> 0, checkmates |-> 0, castles |-> 0,
     pawnMoves |-> 0, pieceMoves |-> 0, queenMoves |-> 0, rookMoves |-> 0,
     bishopMoves |-> 0, knightMoves |-> 0, kingMoves |-> 0, promotions |-> 0,
     whiteMoves |-> <<>>, blackMoves |-> <<>>]

\* Faulty variant: the sides are swapped
SideOf_Swapped(i) == IF i % 2 = 0 THEN "black" ELSE "white"

\* i % 2 === 0 ? 'white' : 'black', for the 0-based index i
SideOf(i) == IF i % 2 = 0 THEN "white" ELSE "black"

\* Faulty variant: the pawn test /[a-h]/ without its anchor
PieceOf_Unanchored(move) ==
    IF \E i \in 1..Len(move) : move[i] \in FileLetters THEN "pawnMoves"
    ELSE IF StartsWith(move, <<"N">>) THEN "knightMoves"
    ELSE IF StartsWith(move, <<"B">>) THEN "bishopMoves"
    ELSE IF StartsWith(move, <<"R">>) THEN "rookMoves"
    ELSE IF StartsWith(move, <<"Q">>) THEN "queenMoves"
    ELSE IF StartsWith(move, <<"K">>) THEN "kingMoves"
    ELSE "none"

\* The if / else-if chain of the piece identification: the counter to bump
PieceOf(move) ==
    IF move # <<>> /\ move[1] \in FileLetters THEN "pawnMoves"
    ELSE IF StartsWith(move, <<"N">>) THEN "knightMoves"
    ELSE IF StartsWith(move, <<"B">>) THEN "bishopMoves"
    ELSE IF StartsWith(move, <<"R">>) THEN "rookMoves"
    ELSE IF StartsWith(move, <<"Q">>) THEN "queenMoves"
    ELSE IF StartsWith(move, <<"K">>) THEN "kingMoves"
    ELSE "none"

Bump(st, field, cond) == IF cond THEN [st EXCEPT ![field] = @ + 1] ELSE st

\* Faulty variant: the pawn test is unanchored and no `else` joins the tests
AnalyzeStep_NoElse(st, move, i) ==
    LET s1 == IF SideOf(i) = "white"
              THEN [st EXCEPT !.whiteMoves = Append(@, move)]
              ELSE [st EXCEPT !.blackMoves = Append(@, move)]
        s2 == Bump(s1, "captures", Includes(move, <<"x">>))
        s3 == Bump(s2, "checks", Includes(move, <<"+">>))
        s4 == Bump(s3, "checkmates", Includes(move, <<"#">>))
        s5 == Bump(s4, "castles", Includes(move, <<"O", "-", "O">>))
        s6 == Bump(s5, "promotions", Includes(move, <<"=">>))
        s7 == Bump(s6, "pawnMoves", \E k \in 1..Len(move) : move[k] \in FileLetters)
        s8 == Bump(s7, "knightMoves", StartsWith(move, <<"N">>))
        s9 == Bump(s8, "bishopMoves", StartsWith(move, <<"B">>))
        s10 == Bump(s9, "rookMoves", StartsWith(move, <<"R">>))
        s11 == Bump(s10, "queenMoves", StartsWith(move, <<"Q">>))
    IN  Bump(s11, "kingMoves", StartsWith(move, <<"K">>))

\* The body of the for loop for index i (0-based) on the running stats
AnalyzeStep(st, move, i) ==
    LET s1 == IF SideOf(i) = "white"
              THEN [st EXCEPT !.whiteMoves = Append(@, move)]
              ELSE [st EXCEPT !.blackMoves = Append(@, move)]
        s2 == Bump(s1, "captures", Includes(move, <<"x">>))
        s3 == Bump(s2, "checks", Includes(move, <<"+">>))
        s4 == Bump(s3, "checkmates", Includes(move, <<"#">>))
        s5 == Bump(s4, "castles", Includes(move, <<"O", "-", "O">>))
        s6 == Bump(s5, "promotions", Includes(move, <<"=">>))
    IN  Bump(s6, PieceOf(move), PieceOf(move) # "none")

RECURSIVE AnalyzeLoop(_, _, _)
AnalyzeLoop(st, ms, i) ==
    IF i >= Len(ms) THEN st
    ELSE AnalyzeLoop(AnalyzeStep(st, ms[i + 1], i), ms, i + 1)

analyzeMoves(ms) ==
    LET st == AnalyzeLoop([emptyStats EXCEPT !.totalMoves = Len(ms)], ms, 0)
    IN  [st EXCEPT !.pieceMoves = st.knightMoves + st.bishopMoves + st.rookMoves
                                  + st.queenMoves + st.kingMoves]

----------------------------------------------------------------------------
(* splitEcoUrl  (chess-fetcher.js:296-336)                                 *)

DigitChar(n) ==
    CASE n = 0 -> "0" [] n = 1 -> "1" [] n = 2 -> "2" [] n = 3 -> "3" [] n = 4 -> "4"
      [] n = 5 -> "5" [] n = 6 -> "6" [] n = 7 -> "7" [] n = 8 -> "8" [] n = 9 -> "9"

\* `__WITH_${n}__`
Placeholder(n) == <<"_", "_", "W", "I", "T", "H", "_">> \o <<DigitChar(n)>> \o <<"_", "_">>

\* End of (O-O(?:-O)?|[a-zA-Z0-9]+) at index i, or 0
WithMoveEnd(s, i) ==
    IF StartsAt(s, i, <<"O", "-", "O">>)
    THEN (IF StartsAt(s, i + 3, <<"-", "O">>) THEN i + 5 ELSE i + 3)
    ELSE IF RunEnd(s, i, AlphaNum) > i THEN RunEnd(s, i, AlphaNum) ELSE 0

\* End of -(\d+)-(move) preceded by the literal lead at index i, or 0
NumberedMoveEnd(s, i, lead) ==
    LET a == i + Len(lead)
        b == RunEnd(s, a, Digits)
    IN  IF StartsAt(s, i, lead) /\ b > a /\ b <= Len(s) /\ s[b] = "-"
        THEN WithMoveEnd(s, b + 1) ELSE 0

\* One attempt of
\* /with-(\d+)-(O-O(?:-O)?|[a-zA-Z0-9]+)(?:-and-(\d+)-(O-O(?:-O)?|[a-zA-Z0-9]+))?/ at i
WithClauseEnd(s, i) ==
    LET e1 == NumberedMoveEnd(s, i, <<"w", "i", "t", "h", "-">>)
    IN  IF e1 = 0 THEN 0
        ELSE IF NumberedMoveEnd(s, e1, <<"-", "a", "n", "d", "-">>) # 0
             THEN NumberedMoveEnd(s, e1, <<"-", "a", "n", "d", "-">>) ELSE e1

\* slug.replace(/with-.../g, match => { withPatterns.push(match); return placeholder })
RECURSIVE ProtectFrom(_, _, _)
ProtectFrom(s, i, acc) ==
    IF i > Len(s) THEN acc
    ELSE LET e == WithClauseEnd(s, i)
         IN  IF e # 0
             THEN ProtectFrom(s, e,
                    [slug |-> acc.slug \o Placeholder(Len(acc.withPatterns)),
                     withPatterns |-> Append(acc.withPatterns, SubSeq(s, i, e - 1))])
             ELSE ProtectFrom(s, i + 1, [acc EXCEPT !.slug = Append(@, s[i])])
ProtectWith(s) == ProtectFrom(s, 1, [slug |-> <<>>, withPatterns |-> <<>>])

\* Faulty variant: the first alternative asks for 1 to 3 dots
MoveBoundaryAt_NeedsDot(s, i) ==
    LET d == RunEnd(s, i + 1, Digits)
        k == RunEnd(s, d, {"."})
        t == RunEnd(s, i + 3, Digits)
    IN  \/ /\ s[i] = "-"
           /\ d > i + 1
           /\ k - d >= 1 /\ k - d <= 3
           /\ k <= Len(s) /\ s[k] \in Letters
        \/ /\ StartsAt(s, i, <<".", ".", ".">>)
           /\ t > i + 3
           /\ t <= Len(s) /\ s[t] = "."
        \/ /\ StartsAt(s, i, <<".", ".", ".">>)
           /\ i + 3 <= Len(s) /\ s[i + 3] \in Letters

\* Does /(-\d+\.{0,3}[a-zA-Z]|\.{3}\d+\.|\.{3}[a-zA-Z])/ match at index i?
MoveBoundaryAt(s, i) ==
    LET d == RunEnd(s, i + 1, Digits)
        k == RunEnd(s, d, {"."})
        t == RunEnd(s, i + 3, Digits)
    IN  \/ /\ s[i] = "-"
           /\ d > i + 1
           /\ k - d <= 3
           /\ k <= Len(s) /\ s[k] \in Letters
        \/ /\ StartsAt(s, i, <<".", ".", ".">>)
           /\ t > i + 3
           /\ t <= Len(s) /\ s[t] = "."
        \/ /\ StartsAt(s, i, <<".", ".", ".">>)
           /\ i + 3 <= Len(s) /\ s[i + 3] \in Letters

\* slug.match(movePattern): index of the leftmost match, or 0
RECURSIVE MoveBoundary(_, _)
MoveBoundary(s, i) ==
    IF i > Len(s) THEN 0
    ELSE IF MoveBoundaryAt(s, i) THEN i ELSE MoveBoundary(s, i + 1)

\* String.prototype.replace(literal, by): the first occurrence only
ReplaceFirst(s, lit, by) ==
    LET k == IndexOf(s, 1, lit)
    IN  IF k = 0 THEN s ELSE SubSeq(s, 1, k - 1) \o by \o Substring(s, k + Len(lit))

\* withPatterns.forEach((pattern, i) => baseSlug = baseSlug.replace(`__WITH_${i}__`, pattern))
RECURSIVE RestoreFrom(_, _, _)
RestoreFrom(baseSlug, withPatterns, i) ==
    IF i >= Len(withPatterns) THEN baseSlug
    ELSE RestoreFrom(ReplaceFirst(baseSlug, Placeholder(i), withPatterns[i + 1]),
                     withPatterns, i + 1)
\* Faulty variant: the protected clauses are not restored
RestoreWith_Skipped(baseSlug, withPatterns) == baseSlug
RestoreWith(baseSlug, withPatterns) == RestoreFrom(baseSlug, withPatterns, 0)

\* ecoUrl.split('/openings/')[1] || ''
FullSlug(url) ==
    LET parts == Split(url, <<"/", "o", "p", "e", "n", "i", "n", "g", "s", "/">>)
    IN  IF Len(parts) >= 2 THEN parts[2] ELSE <<>>

\* Faulty variant: the test looks for the path marker /openings/ on any host
NotCatalogUrl_AnyHost(url) == url = <<>> \/ ~Includes(url, <<"/", "o", "p", "e", "n", "i", "n", "g", "s", "/">>)

\* !ecoUrl || !ecoUrl.includes('chess.com/openings/')
NotCatalogUrl(url) == url = <<>> \/ ~Includes(url, <<"c", "h", "e", "s", "s", ".", "c", "o", "m", "/", "o", "p", "e", "n", "i", "n", "g", "s", "/">>)

splitEcoUrl(url) ==
    IF NotCatalogUrl(url) THEN [baseSlug |-> <<>>, extraMoves |-> <<>>]
    ELSE IF FullSlug(url) = <<>> THEN [baseSlug |-> <<>>, extraMoves |-> <<>>]
    ELSE LET p == ProtectWith(FullSlug(url))
             k == MoveBoundary(p.slug, 1)
             baseSlug == IF k # 0 THEN SubSeq(p.slug, 1, k - 1) ELSE p.slug
             extraMoves == IF k # 0 THEN Substring(p.slug, k) ELSE <<>>
         IN  [baseSlug |-> ToLowerCase(RestoreWith(baseSlug, p.withPatterns)),
              extraMoves |-> extraMoves]

----------------------------------------------------------------------------
(* formatExtraMoves  (chess-fetcher.js:341-390)                            *)

\* token.match(/^(\d+)(\.{0,3})$/): [ok, num, dots]
MoveNumMatch(token) ==
    LET a == RunEnd(token, 1, Digits)
        b == RunEnd(token, a, {"."})
    IN  IF a > 1 /\ b = Len(token) + 1 /\ b - a <= 3
        THEN [ok |-> TRUE, num |-> SubSeq(token, 1, a - 1), dots |-> b - a]
        ELSE [ok |-> FALSE, num |-> <<>>, dots |-> 0]

\* Faulty variant: the second token after a White marker is consumed but not
\* pushed
RECURSIVE FormatLoop_DropsSecond(_, _, _)
FormatLoop_DropsSecond(tokens, i, out) ==
    IF i >= Len(tokens) THEN out
    ELSE LET m == MoveNumMatch(tokens[i + 1])
             free(j) == j < Len(tokens) /\ ~MoveNumMatch(tokens[j + 1]).ok
         IN  IF m.ok
             THEN IF m.dots = 3
                  THEN IF free(i + 1)
                       THEN FormatLoop_DropsSecond(tokens, i + 2,
                                out \o <<m.num \o <<".", ".", ".">>, tokens[i + 2]>>)
                       ELSE FormatLoop_DropsSecond(tokens, i + 1, Append(out, m.num \o <<".", ".", ".">>))
                  ELSE IF free(i + 1)
                       THEN IF free(i + 2)
                            THEN FormatLoop_DropsSecond(tokens, i + 3,
                                     out \o <<m.num \o <<".">>, tokens[i + 2]>>)
                            ELSE FormatLoop_DropsSecond(tokens, i + 2,
                                     out \o <<m.num \o <<".">>, tokens[i + 2]>>)
                       ELSE FormatLoop_DropsSecond(tokens, i + 1, Append(out, m.num \o <<".">>))
             ELSE FormatLoop_DropsSecond(tokens, i + 1, Append(out, tokens[i + 1]))

\* The while loop over the tokens, i 0-based
RECURSIVE FormatLoop(_, _, _)
FormatLoop(tokens, i, out) ==
    IF i >= Len(tokens) THEN out
    ELSE LET m == MoveNumMatch(tokens[i + 1])
             free(j) == j < Len(tokens) /\ ~MoveNumMatch(tokens[j + 1]).ok
         IN  IF m.ok
             THEN IF m.dots = 3
                  THEN IF free(i + 1)
                       THEN FormatLoop(tokens, i + 2,
                                out \o <<m.num \o <<".", ".", ".">>, tokens[i + 2]>>)
                       ELSE FormatLoop(tokens, i + 1, Append(out, m.num \o <<".", ".", ".">>))
                  ELSE IF free(i + 1)
                       THEN IF free(i + 2)
                            THEN FormatLoop(tokens, i + 3,
                                     out \o <<m.num \o <<".">>, tokens[i + 2], tokens[i + 3]>>)
                            ELSE FormatLoop(tokens, i + 2,
                                     out \o <<m.num \o <<".">>, tokens[i + 2]>>)
                       ELSE FormatLoop(tokens, i + 1, Append(out, m.num \o <<".">>))
             ELSE FormatLoop(tokens, i + 1, Append(out, tokens[i + 1]))

\* tokens.filter(Boolean)
NonEmpty(parts) == SelectSeq(parts, LAMBDA t : t # <<>>)

formatExtraMoves(extraMovesSlug) ==
    IF Trim(extraMovesSlug) = <<>> THEN <<>>
    ELSE LET t == Trim(extraMovesSlug)
             stripped == Substring(t, RunEnd(t, 1, {"-", "."}))
         IN  IF stripped = <<>> THEN <<>>
             ELSE Join(FormatLoop(NonEmpty(Split(stripped, <<"-">>)), 0, <<>>), <<" ">>)

----------------------------------------------------------------------------
(* lookupOpening  (chess-fetcher.js:464-478)                               *)

\* The null returned when no entry is found
NoOpening == [isNull |-> TRUE]

\* Map.prototype.has / Map.prototype.get on the catalog mapping
Has(map, key) == key \in DOMAIN map

\* Faulty variant: the fallback strips the last -with- suffix only
lookupOpening_LastWith(map, key) ==
    IF Has(map, key) THEN map[key]
    ELSE LET parts == Split(key, <<"-", "w", "i", "t", "h", "-">>)
             withoutWith == Join(SubSeq(parts, 1, Len(parts) - 1), <<"-", "w", "i", "t", "h", "-">>)
         IN  IF Len(parts) > 1 /\ withoutWith # <<>> /\ Has(map, withoutWith)
             THEN map[withoutWith]
             ELSE NoOpening

lookupOpening(map, key) ==
    IF Has(map, key) THEN map[key]
    ELSE LET withoutWith == Split(key, <<"-", "w", "i", "t", "h", "-">>)[1]
         IN  IF withoutWith # <<>> /\ withoutWith # key /\ Has(map, withoutWith)
             THEN map[withoutWith]
             ELSE NoOpening

----------------------------------------------------------------------------
(* loadOpeningsDb  (chess-fetcher.js:395-459)                              *)

\* const CACHE_DURATION_MS = 5 * 60 * 1000
CACHE_DURATION_MS == 5 * 60 * 1000

\* let openingsCache = null: a mapping that is unset, or set to a Map
NoCache == [isNull |-> TRUE, map |-> <<>>]
CacheOf(map) == [isNull |-> FALSE, map |-> map]

\* String(x || '') for a text column that may be NULL
TextOf(x) == IF x = null THEN "" ELSE x

\* The entry built for one row, under its normalised slug
EntryOf(row, trimSlug) ==
    [fullName |-> TextOf(row.full_name), slug |-> trimSlug,
     family |-> TextOf(row.family), baseName |-> TextOf(row.base_name),
     var1 |-> TextOf(row.variation_1), var2 |-> TextOf(row.variation_2),
     var3 |-> TextOf(row.variation_3), var4 |-> TextOf(row.variation_4),
     var5 |-> TextOf(row.variation_5), var6 |-> TextOf(row.variation_6)]

\* Map.prototype.set
MapSet(map, key, value) ==
    [k \in DOMAIN map \cup {key} |-> IF k = key THEN value ELSE map[k]]

\* Faulty variant: the key keeps the letter case of the row
BuildCache_KeepsCase(rows, i, cache) ==
    IF rows = <<>> THEN cache
    ELSE LET Keyed(k) == [s \in {Trim(rows[j].trim_slug) : j \in 1..k} \ {<<>>} |->
                             LET j == CHOOSE j \in 1..k : Trim(rows[j].trim_slug) = s
                             IN  EntryOf(rows[j], s)]
         IN  Keyed(Len(rows))

\* Faulty variant: the mapping is handed over after its first row
BuildCache_FirstRow(rows, i, cache) ==
    IF i > Len(rows) THEN cache
    ELSE LET trimSlug == ToLowerCase(Trim(rows[i].trim_slug))
         IN  IF trimSlug = <<>> THEN cache
             ELSE MapSet(cache, trimSlug, EntryOf(rows[i], trimSlug))

\* Faulty variant: a slug that is already in the mapping keeps its first row
RECURSIVE BuildCache_FirstWins(_, _, _)
BuildCache_FirstWins(rows, i, cache) ==
    IF i > Len(rows) THEN cache
    ELSE LET trimSlug == ToLowerCase(Trim(rows[i].trim_slug))
         IN  IF trimSlug = <<>> \/ trimSlug \in DOMAIN cache
             THEN BuildCache_FirstWins(rows, i + 1, cache)
             ELSE BuildCache_FirstWins(rows, i + 1,
                      MapSet(cache, trimSlug, EntryOf(rows[i], trimSlug)))

\* for (const row of rows) { ... cache.set(trimSlug, {...}) }
RECURSIVE BuildCache(_, _, _)
BuildCache(rows, i, cache) ==
    IF i > Len(rows) THEN cache
    ELSE LET trimSlug == ToLowerCase(Trim(rows[i].trim_slug))
         IN  IF trimSlug = <<>> THEN BuildCache(rows, i + 1, cache)
             ELSE BuildCache(rows, i + 1, MapSet(cache, trimSlug, EntryOf(rows[i], trimSlug)))

\* Faulty variant: a cache that was set never expires
CacheValid_Forever(t) == lastCacheTime # 0

\* Faulty variant: the cache is still valid at exactly CACHE_DURATION_MS
CacheValid_Inclusive(t) ==
    /\ ~openingsCache.isNull
    /\ lastCacheTime # 0
    /\ t - lastCacheTime <= CACHE_DURATION_MS

\* openingsCache && lastCacheTime && (now - lastCacheTime) < CACHE_DURATION_MS
\* (lastCacheTime = 0 stands for null: both are falsy)
CacheValid(t) ==
    /\ ~openingsCache.isNull
    /\ lastCacheTime # 0
    /\ t - lastCacheTime < CACHE_DURATION_MS

\* The openings database file: its condition and the rows of its table
StoreOf(state, rows) == [state |-> state, rows |-> rows]

\* A call not yet made. seen and seenTime record what the cache check read.
idleCall == [pc |-> "idle", now |-> 0, cache |-> <<>>, result |-> NoCache, read |-> FALSE,
             seen |-> NoCache, seenTime |-> 0]

\* The synchronous part of a call, made d ms after the clock was last read:
\* the cache check, the fs.existsSync probe and the start of the open.
LoadStart(c, d) ==
    /\ calls[c].pc = "idle"
    /\ now' = now + d
    /\ LET call == [calls[c] EXCEPT !.now = now + d, !.seen = openingsCache,
                                    !.seenTime = lastCacheTime]
       IN  IF CacheValid(now + d)
           THEN /\ calls' = [calls EXCEPT ![c] = [call EXCEPT !.pc = "done",
                                                              !.result = openingsCache]]
                /\ UNCHANGED <<openingsCache, lastCacheTime, reads>>
           ELSE /\ reads' = reads + 1
                /\ IF store.state = "missing"
                   THEN /\ openingsCache' = CacheOf(call.cache)
                        /\ lastCacheTime' = now + d
                        /\ calls' = [calls EXCEPT ![c] = [call EXCEPT !.pc = "done",
                                                          !.result = CacheOf(call.cache),
                                                          !.read = TRUE]]
                   ELSE /\ calls' = [calls EXCEPT ![c] = [call EXCEPT !.pc = "opening",
                                                          !.read = TRUE]]
                        /\ UNCHANGED <<openingsCache, lastCacheTime>>
    /\ UNCHANGED store

\* Faulty variant: a failed open resolves with the empty mapping but leaves
\* the cache and its time stamp as they were
LoadOpened_Unpublished(c) ==
    /\ calls[c].pc = "opening"
    /\ IF store.state \in {"missing", "unreadable"}
       THEN calls' = [calls EXCEPT ![c] = [@ EXCEPT !.pc = "done",
                                                   !.result = CacheOf(calls[c].cache)]]
       ELSE calls' = [calls EXCEPT ![c] = [@ EXCEPT !.pc = "querying"]]
    /\ UNCHANGED <<openingsCache, lastCacheTime, now, store, reads>>

\* The callback of new sqlite3.Database(..., OPEN_READONLY, cb)
LoadOpened(c) ==
    /\ calls[c].pc = "opening"
    /\ IF store.state \in {"missing", "unreadable"}
       THEN /\ openingsCache' = CacheOf(calls[c].cache)
            /\ lastCacheTime' = calls[c].now
            /\ calls' = [calls EXCEPT ![c] = [@ EXCEPT !.pc = "done",
                                                       !.result = CacheOf(calls[c].cache)]]
       ELSE /\ calls' = [calls EXCEPT ![c] = [@ EXCEPT !.pc = "querying"]]
            /\ UNCHANGED <<openingsCache, lastCacheTime>>
    /\ UNCHANGED <<now, store, reads>>

\* Faulty variant: the finished mapping is returned but not stored
LoadRows_Unpublished(c) ==
    /\ calls[c].pc = "querying"
    /\ LET cache == IF store.state # "ok" THEN calls[c].cache
                    ELSE BuildCache(store.rows, 1, calls[c].cache)
       IN  calls' = [calls EXCEPT ![c] = [@ EXCEPT !.pc = "done", !.cache = cache,
                                                  !.result = CacheOf(cache)]]
    /\ UNCHANGED <<openingsCache, lastCacheTime, now, store, reads>>

\* Faulty variant: a failed query rejects the promise instead of resolving it
LoadRows_Rejects(c) ==
    /\ calls[c].pc = "querying"
    /\ IF store.state # "ok"
       THEN /\ calls' = [calls EXCEPT ![c] = [@ EXCEPT !.pc = "rejected"]]
            /\ UNCHANGED <<openingsCache, lastCacheTime>>
       ELSE LET cache == BuildCache(store.rows, 1, calls[c].cache)
            IN  /\ openingsCache' = CacheOf(cache)
                /\ lastCacheTime' = calls[c].now
                /\ calls' = [calls EXCEPT ![c] = [@ EXCEPT !.pc = "done", !.cache = cache,
                                                           !.result = CacheOf(cache)]]
    /\ UNCHANGED <<now, store, reads>>

\* The callback of db.all('SELECT * FROM openings', cb)
LoadRows(c) ==
    /\ calls[c].pc = "querying"
    /\ LET cache == IF store.state # "ok" THEN calls[c].cache
                    ELSE BuildCache(store.rows, 1, calls[c].cache)
       IN  /\ openingsCache' = CacheOf(cache)
           /\ lastCacheTime' = calls[c].now
           /\ calls' = [calls EXCEPT ![c] = [@ EXCEPT !.pc = "done", !.cache = cache,
                                                      !.result = CacheOf(cache)]]
    /\ UNCHANGED <<now, store, reads>>

----------------------------------------------------------------------------
(* getOpeningDataForGame  (chess-fetcher.js:483-531)                       *)

\* const empty = { openingName: '', ..., extraMoves: '' }
emptyData ==
    [openingName |-> "", openingSlug |-> <<>>, openingFamily |-> "", openingBase |-> "",
     var1 |-> "", var2 |-> "", var3 |-> "", var4 |-> "", var5 |-> "", var6 |-> "",
     extraMoves |-> <<>>]

\* Faulty variant: without a match the extra moves are dropped
OpeningData_NoExtra(entry, baseSlug, extraMoves) ==
    IF entry = NoOpening
    THEN [emptyData EXCEPT !.openingSlug = baseSlug]
    ELSE [openingName |-> entry.fullName, openingSlug |-> entry.slug,
          openingFamily |-> entry.family, openingBase |-> entry.baseName,
          var1 |-> entry.var1, var2 |-> entry.var2, var3 |-> entry.var3,
          var4 |-> entry.var4, var5 |-> entry.var5, var6 |-> entry.var6,
          extraMoves |-> formatExtraMoves(extraMoves)]

\* The object returned once the catalog is loaded: the entry's fields, or the
\* empty defaults with the base slug, and the formatted extra moves
OpeningData(entry, baseSlug, extraMoves) ==
    IF entry = NoOpening
    THEN [emptyData EXCEPT !.openingSlug = baseSlug,
                           !.extraMoves = formatExtraMoves(extraMoves)]
    ELSE [openingName |-> entry.fullName, openingSlug |-> entry.slug,
          openingFamily |-> entry.family, openingBase |-> entry.baseName,
          var1 |-> entry.var1, var2 |-> entry.var2, var3 |-> entry.var3,
          var4 |-> entry.var4, var5 |-> entry.var5, var6 |-> entry.var6,
          extraMoves |-> formatExtraMoves(extraMoves)]

\* A call not yet made
idleGet == [pc |-> "idle", ecoUrl |-> <<>>, baseSlug |-> <<>>, extraMoves |-> <<>>,
            data |-> emptyData]

\* Faulty variant: only the empty URL returns early, the test of the base
\* slug is missing
GetStart_NoSlugTest(g, url, d) ==
    /\ gets[g].pc = "idle"
    /\ calls[g].pc = "idle"
    /\ LET r == splitEcoUrl(url)
       IN  IF url = <<>>
           THEN /\ gets' = [gets EXCEPT ![g] = [@ EXCEPT !.pc = "done", !.ecoUrl = url]]
                /\ UNCHANGED <<openingsCache, lastCacheTime, now, store, calls, reads>>
           ELSE /\ gets' = [gets EXCEPT ![g] = [@ EXCEPT !.pc = "awaiting", !.ecoUrl = url,
                                                         !.baseSlug = r.baseSlug,
                                                         !.extraMoves = r.extraMoves]]
                /\ LoadStart(g, d)

\* The part of call g that runs up to `await loadOpeningsDb()`: the two early
\* returns, or the start of its load (which is loadOpeningsDb call g)
GetStart(g, url, d) ==
    /\ gets[g].pc = "idle"
    /\ calls[g].pc = "idle"
    /\ LET r == splitEcoUrl(url)
       IN  IF url = <<>> \/ r.baseSlug = <<>>
           THEN /\ gets' = [gets EXCEPT ![g] = [@ EXCEPT !.pc = "done", !.ecoUrl = url]]
                /\ UNCHANGED <<openingsCache, lastCacheTime, now, store, calls, reads>>
           ELSE /\ gets' = [gets EXCEPT ![g] = [@ EXCEPT !.pc = "awaiting", !.ecoUrl = url,
                                                         !.baseSlug = r.baseSlug,
                                                         !.extraMoves = r.extraMoves]]
                /\ LoadStart(g, d)

\* The part of call g that runs after the load has resolved
GetResume(g) ==
    /\ gets[g].pc = "awaiting"
    /\ calls[g].pc = "done"
    /\ LET found == lookupOpening(calls[g].result.map, gets[g].baseSlug)
       IN  gets' = [gets EXCEPT ![g] = [@ EXCEPT !.pc = "done",
                        !.data = OpeningData(found, gets[g].baseSlug, gets[g].extraMoves)]]
    /\ UNCHANGED <<openingsCache, lastCacheTime, now, store, calls, reads>>

----------------------------------------------------------------------------
(* parseMovesAndClocks  (chess-fetcher.js:238-281)                         *)

PieceLetters == {"N", "B", "R", "Q", "K"}
RankDigits == {"1", "2", "3", "4", "5", "6", "7", "8"}

\* parseInt of a string of digits
RECURSIVE ParseInt(_)
ParseInt(s) ==
    IF s = <<>> THEN 0
    ELSE 10 * ParseInt(SubSeq(s, 1, Len(s) - 1))
         + (CHOOSE n \in 0..9 : DigitChar(n) = s[Len(s)])

\* String(n) for a natural number
RECURSIVE DigitsOf(_)
DigitsOf(n) ==
    IF n < 10 THEN <<DigitChar(n)>> ELSE DigitsOf(n \div 10) \o <<DigitChar(n % 10)>>

\* const moveSection = pgn.split(/\n\n/)[1] || ''
MoveSection(text) ==
    LET parts == Split(text, <<"\n", "\n">>)
    IN  IF Len(parts) >= 2 THEN parts[2] ELSE <<>>

\* End of a \S+ run that starts at i (i itself when there is none)
TokenEnd(s, i) ==
    CHOOSE j \in i..(Len(s) + 1) :
        /\ \A k \in i..(j - 1) : s[k] \notin SpaceChars
        /\ j <= Len(s) => s[j] \in SpaceChars

NoPair == [end |-> 0, plies |-> 0]

\* /\d+\.\s+\S+(\s+\S+)?/ at index i: the index after the match and the number
\* of tokens after the move number, or NoPair. Every quantifier is greedy and
\* none can give back: the digits end at the dot, the blanks at a token, a
\* token at a blank.
NumberedPair(s, i) ==
    LET d == RunEnd(s, i, Digits)
    IN  IF d = i \/ d > Len(s) \/ s[d] # "." THEN NoPair
        ELSE LET w == RunEnd(s, d + 1, SpaceChars)
                 t == TokenEnd(s, w)
                 w2 == RunEnd(s, t, SpaceChars)
                 t2 == TokenEnd(s, w2)
             IN  IF w = d + 1 \/ t = w THEN NoPair
                 ELSE IF w2 > t /\ t2 > w2 THEN [end |-> t2, plies |-> 2]
                 ELSE [end |-> t, plies |-> 1]

\* moveSection.match(/.../g) and moves.reduce(...): the plies of every match
RECURSIVE CountPlies(_, _)
CountPlies(s, i) ==
    IF i > Len(s) THEN 0
    ELSE LET r == NumberedPair(s, i)
         IN  IF r.end = 0 THEN CountPlies(s, i + 1)
             ELSE r.plies + CountPlies(s, r.end)

\* ([NBRQK]?[a-h]?[1-8]?x?[a-h][1-8](?:=[NBRQK])?|O-O(?:-O)?): the texts the
\* first group can match
InMoveNotation(m) ==
    \/ m \in {<<"O", "-", "O">>, <<"O", "-", "O", "-", "O">>}
    \/ \E p, f, r, x, q \in {0, 1} :
          LET n == p + f + r + x
          IN  /\ Len(m) = n + 2 + 2 * q
              /\ p = 1 => m[1] \in PieceLetters
              /\ f = 1 => m[p + 1] \in FileLetters
              /\ r = 1 => m[p + f + 1] \in RankDigits
              /\ x = 1 => m[n] = "x"
              /\ m[n + 1] \in FileLetters
              /\ m[n + 2] \in RankDigits
              /\ q = 1 => (m[n + 3] = "=" /\ m[n + 4] \in PieceLetters)

NoClock == [end |-> 0, hours |-> <<>>, minutes |-> <<>>, seconds |-> <<>>, deciseconds |-> <<>>]

\* \s*\{?\[%clk\s+(\d+):(\d+):(\d+)(?:\.(\d+))?\]?\}? at index j: the index
\* after the match and the four groups, or NoClock
ClockAt(s, j) ==
    LET a == RunEnd(s, j, SpaceChars)
        b == IF a <= Len(s) /\ s[a] = "{" THEN a + 1 ELSE a
        w == RunEnd(s, b + 5, SpaceChars)
        h == RunEnd(s, w, Digits)
        m == RunEnd(s, h + 1, Digits)
        sec == RunEnd(s, m + 1, Digits)
        frac == RunEnd(s, sec + 1, Digits)
        hasFrac == sec <= Len(s) /\ s[sec] = "." /\ frac > sec + 1
        e == IF hasFrac THEN frac ELSE sec
        e2 == IF e <= Len(s) /\ s[e] = "]" THEN e + 1 ELSE e
        e3 == IF e2 <= Len(s) /\ s[e2] = "}" THEN e2 + 1 ELSE e2
    IN  IF /\ StartsAt(s, b, <<"[", "%", "c", "l", "k">>)
           /\ w > b + 5
           /\ h > w /\ h <= Len(s) /\ s[h] = ":"
           /\ m > h + 1 /\ m <= Len(s) /\ s[m] = ":"
           /\ sec > m + 1
        THEN [end |-> e3, hours |-> SubSeq(s, w, h - 1), minutes |-> SubSeq(s, h + 1, m - 1),
              seconds |-> SubSeq(s, m + 1, sec - 1),
              deciseconds |-> IF hasFrac THEN SubSeq(s, sec + 1, frac - 1) ELSE <<>>]
        ELSE NoClock

\* hours * 3600 + minutes * 60 + seconds + deciseconds / 10, kept in tenths of
\* a second
\* Faulty variant: the tenths are added as whole seconds
ClockTenths_AsSeconds(c) ==
    10 * (ParseInt(c.hours) * 3600 + ParseInt(c.minutes) * 60 + ParseInt(c.seconds)
          + ParseInt(c.deciseconds))

ClockTenths(c) ==
    10 * (ParseInt(c.hours) * 3600 + ParseInt(c.minutes) * 60 + ParseInt(c.seconds))
    + ParseInt(c.deciseconds)

NoClockMove == [end |-> 0, move |-> <<>>, clock |-> 0]

\* movePattern at index i. The clock part starts with a blank, `{` or `[`,
\* none of which a move holds, so the first group can only end at the first
\* such character after i.
ClockMoveAt(s, i) ==
    LET j == CHOOSE j \in i..(Len(s) + 1) :
                 /\ \A k \in i..(j - 1) : s[k] \notin SpaceChars \cup {"{", "["}
                 /\ j <= Len(s) => s[j] \in SpaceChars \cup {"{", "["}
        move == SubSeq(s, i, j - 1)
        c == ClockAt(s, j)
    IN  IF InMoveNotation(move) /\ c.end # 0
        THEN [end |-> c.end, move |-> move, clock |-> ClockTenths(c)]
        ELSE NoClockMove

\* while ((match = movePattern.exec(moveSection)) !== null) movesData.push(...)
RECURSIVE ScanClocks(_, _)
ScanClocks(s, i) ==
    IF i > Len(s) THEN <<>>
    ELSE LET r == ClockMoveAt(s, i)
         IN  IF r.end = 0 THEN ScanClocks(s, i + 1)
             ELSE <<[move |-> r.move, clock |-> r.clock]>> \o ScanClocks(s, r.end)

\* JSON.stringify of a clock reading and of movesData
JsonNumber(tenths) ==
    DigitsOf(tenths \div 10)
    \o (IF tenths % 10 = 0 THEN <<>> ELSE <<".">> \o DigitsOf(tenths % 10))
JsonEntry(e) ==
    <<"{", "\"", "m", "o", "v", "e", "\"", ":", "\"">> \o e.move \o <<"\"", ",", "\"", "c", "l", "o", "c", "k", "\"", ":">> \o JsonNumber(e.clock) \o <<"}">>
JsonArray(movesData) ==
    <<"[">> \o Join([k \in 1..Len(movesData) |-> JsonEntry(movesData[k])], <<",">>)
    \o <<"]">>

\* movesData is the array the loop fills; moves is its JSON text, or null
parseMovesAndClocks(text) ==
    IF text = <<>>
    THEN [movesData |-> <<>>, moves |-> [isNull |-> TRUE, text |-> <<>>],
          plies |-> 0, totalMoves |-> 0]
    ELSE LET moveSection == MoveSection(text)
             movesData == ScanClocks(moveSection, 1)
             plyCount == CountPlies(moveSection, 1)
         IN  [movesData |-> movesData,
              moves |-> [isNull |-> FALSE, text |-> JsonArray(movesData)],
              plies |-> plyCount, totalMoves |-> (plyCount + 1) \div 2]

----------------------------------------------------------------------------
(* RatingsTracker, insertGame, main  (chess-fetcher.js:660-709, 712-870,   *)
(* 910-972)                                                                *)

\* A rating, or the null that stands for none
NoRating == [isNull |-> TRUE, value |-> 0]
RatingOf(n) == [isNull |-> FALSE, value |-> n]

\* this.ledger = {}
emptyLedger == <<>>

\* this.ledger[format] || null: a missing entry and the rating 0 are falsy
LedgerRating(l, format) ==
    IF format \in DOMAIN l /\ l[format] # 0 THEN RatingOf(l[format]) ELSE NoRating

\* calculateRating(format, currentRating) on the ledger l: the object it
\* returns and the ledger it leaves
calculateRating(l, format, currentRating) ==
    LET ratingBefore == LedgerRating(l, format)
        ratingDelta == IF ~ratingBefore.isNull /\ ~currentRating.isNull
                       THEN RatingOf(currentRating.value - ratingBefore.value)
                       ELSE NoRating
    IN  [before |-> ratingBefore, delta |-> ratingDelta,
         ledger |-> IF ~currentRating.isNull
                    THEN MapSet(l, format, currentRating.value)
                    ELSE l]

\* The rows of SELECT ... WHERE my_rating IS NOT NULL that the loop of
\* loadFromDatabase keeps for a format: `row.format && row.my_rating`
RatedRows(t, format) ==
    {id \in DOMAIN t : /\ t[id].format = format /\ format # ""
                       /\ ~t[id].my_rating.isNull /\ t[id].my_rating.value # 0}

\* formatLastRating after the loop over the rows in ORDER BY end_epoch ASC:
\* the rating of the last kept row of each format
loadFromDatabase(t) ==
    [format \in {f \in {t[id].format : id \in DOMAIN t} : RatedRows(t, f) # {}} |->
        LET last == CHOOSE id \in RatedRows(t, format) :
                        \A j \in RatedRows(t, format) : t[j].end_epoch <= t[id].end_epoch
        IN  t[last].my_rating.value]

\* games.sort((a, b) => a.end_time - b.end_time), on games that end at
\* different times
RECURSIVE SortByEndTime(_)
SortByEndTime(games) ==
    IF games = <<>> THEN <<>>
    ELSE LET first == CHOOSE k \in 1..Len(games) :
                          \A j \in 1..Len(games) : games[k].end_time <= games[j].end_time
         IN  <<games[first]>>
             \o SortByEndTime([k \in 1..(Len(games) - 1) |->
                                  IF k < first THEN games[k] ELSE games[k + 1]])

\* The games of all archives in the order main inserts them
RECURSIVE InsertOrder(_)
InsertOrder(archives) ==
    IF archives = <<>> THEN <<>>
    ELSE SortByEndTime(archives[1]) \o InsertOrder(SubSeq(archives, 2, Len(archives)))

\* The row INSERT OR REPLACE writes for a game, as far as the ratings go
GameRow(g, ratings) ==
    [format |-> g.format, my_rating |-> g.rating, end_epoch |-> g.end_time,
     rating_before |-> ratings.before, rating_delta |-> ratings.delta]

----------------------------------------------------------------------------
(* Inputs                                                                  *)

MaxPlies == 3
MaxTags == 3
MaxMoves == 3
MaxSlugParts == 2
MaxCalls == 3
MaxGets == 2
MaxClockPlies == 2
MaxLoads == 2
MaxPieces == 3
MaxDecorated == 3
MaxRows == 3
MaxReadings == 2
MaxTokens == 3
MaxRatingCalls == 3
MaxGames == 3

\* All sequences over S of length at most n
SeqsUpTo(S, n) == UNION {[1..k -> S] : k \in 0..n}

RECURSIVE Concat(_)
Concat(parts) == IF parts = <<>> THEN <<>> ELSE parts[1] \o Concat(Substring(parts, 2))

\* ---- PGN texts, written from a game description

\* A tag line: `[Name "Value"]`, or the garbled `[Name Value]`
TagLine(tag) ==
    IF tag.quoted THEN <<"[">> \o tag.name \o <<" ", "\"">> \o tag.value \o <<"\"", "]", "\n">>
    ELSE <<"[">> \o tag.name \o <<" ">> \o tag.value \o <<"]", "\n">>

Tag(name, value, quoted) == [name |-> name, value |-> value, quoted |-> quoted]
WhiteX == Tag(<<"W", "h", "i", "t", "e">>, <<"x">>, TRUE)
WhiteY == Tag(<<"W", "h", "i", "t", "e">>, <<"y", " ", "z">>, TRUE)
EcoX == Tag(<<"E", "C", "O">>, <<"x">>, TRUE)
EcoEmpty == Tag(<<"E", "C", "O">>, <<>>, TRUE)
EcoBare == Tag(<<"E", "C", "O">>, <<"x">>, FALSE)
TagVocab == {WhiteX, WhiteY, EcoX, EcoEmpty, EcoBare}

\* A tag of the shape `[Name "Value"]` that carries a value
WellFormedTag(tag) == tag.quoted /\ tag.value # <<>>

PlyVocab == {<<"e", "4">>, <<"N", "x", "f", "6", "+">>, <<"O", "-", "O">>}
ClockComment == <<" ", "{", "[", "%", "c", "l", "k", " ", "0", ":", "0", "2", ":", "5", "9", ".", "9", "]", "}">>

\* The move text of ply i (0-based): `n. move` for White, `move` or
\* `n... move` for Black, each followed by a clock comment when commented
PlyText(g, i) ==
    LET n == <<DigitChar(i \div 2 + 1)>>
        marker == IF i % 2 = 0 THEN n \o <<".", " ">>
                  ELSE IF g.markers THEN n \o <<".", ".", ".", " ">> ELSE <<>>
    IN  (IF i = 0 THEN <<>> ELSE <<" ">>) \o marker \o g.plies[i + 1]
        \o (IF g.comments THEN ClockComment ELSE <<>>)

Render(g) ==
    (IF g.lead THEN <<"\n">> ELSE <<>>)
    \o Concat([k \in 1..Len(g.tags) |-> TagLine(g.tags[k])])
    \o (IF g.sep THEN <<"\n">> ELSE <<>>)
    \o Concat([k \in 1..Len(g.plies) |-> PlyText(g, k - 1)])
    \o (IF g.result /\ g.plies # <<>> THEN <<" ", "1", "-", "0">> ELSE <<>>)

\* Games for the move parser: no tag, one tag, two tags or a garbled tag
Games ==
    [tags : {<<>>, <<WhiteX>>, <<WhiteX, EcoX>>, <<EcoBare>>},
     lead : BOOLEAN, sep : BOOLEAN,
     plies : SeqsUpTo(PlyVocab, MaxPlies),
     comments : BOOLEAN, markers : BOOLEAN, result : BOOLEAN]

\* Games for the tag parser: any tag lines, with or without a move section
TagGames ==
    [tags : SeqsUpTo(TagVocab, MaxTags),
     lead : {FALSE}, sep : {TRUE},
     plies : {<<>>, <<<<"e", "4">>, <<"O", "-", "O">>>>},
     comments : {FALSE}, markers : {FALSE}, result : {FALSE}]

\* ---- Games whose moves carry commentary: a comment, a variation, a
\* variation inside a variation, an annotation glyph or a `!`/`?` suffix after
\* a move, and a result at the end
MainLine == <<<<"e", "4">>, <<"e", "5">>, <<"N", "f", "3">>, <<"N", "c", "6">>, <<"B", "b", "5">>, <<"a", "6">>>>
DecorVocab == {<<>>, <<" ", "{", "d", "4", "}">>, <<" ", "(", "1", ".", " ", "d", "4", ")">>, <<" ", "(", "1", ".", " ", "d", "4", " ", "(", "1", ".", " ", "c", "4", ")", " ", "d", "5", ")">>, <<" ", "$", "1">>, <<"!">>, <<"?", "!">>}
ResultVocab == {<<>>, <<" ", "1", "-", "0">>, <<" ", "0", "-", "1">>, <<" ", "1", "/", "2", "-", "1", "/", "2">>, <<" ", "*">>}
DecoratedGames ==
    [decor : SeqsUpTo(DecorVocab, MaxDecorated), result : ResultVocab]
DecoratedPly(g, i) ==
    (IF i = 0 THEN <<>> ELSE <<" ">>)
    \o (IF i % 2 = 0 THEN <<DigitChar(i \div 2 + 1)>> \o <<".", " ">> ELSE <<>>)
    \o MainLine[i + 1] \o g.decor[i + 1]
DecoratedRender(g) ==
    TagLine(WhiteX) \o <<"\n">>
    \o Concat([k \in 1..Len(g.decor) |-> DecoratedPly(g, k - 1)])
    \o g.result

\* ---- Move lists for the statistics pass
StatVocab == {<<"e", "4">>, <<"N", "x", "f", "6", "+">>, <<"e", "8", "=", "Q", "#">>, <<"O", "-", "O">>, <<"O", "-", "O", "-", "O">>, <<"B", "b", "5">>,
              <<"R", "x", "a", "1">>, <<"Q", "d", "1">>, <<"K", "x", "e", "2">>, <<"Z", "z", "9">>}

\* ---- Catalog URLs: a prefix, an opening name and slug parts
UrlPrefixes == {<<>>, <<"h", "t", "t", "p", "s", ":", "/", "/", "x", "/", "o", "p", "e", "n", "i", "n", "g", "s", "/">>, <<"h", "t", "t", "p", "s", ":", "/", "/", "w", "w", "w", ".", "c", "h", "e", "s", "s", ".", "c", "o", "m", "/", "o", "p", "e", "n", "i", "n", "g", "s", "/">>,
                <<"h", "t", "t", "p", "s", ":", "/", "/", "w", "w", "w", ".", "c", "h", "e", "s", "s", ".", "c", "o", "m", "/", "g", "a", "m", "e", "s", "/">>}
SlugNames == {<<>>, <<"q", "u", "e", "e", "n", "s", "-", "g", "a", "m", "b", "i", "t", "-", "d", "e", "c", "l", "i", "n", "e", "d">>, <<"I", "t", "a", "l", "i", "a", "n", "-", "G", "a", "m", "e">>}
WithParts == {<<"-", "w", "i", "t", "h", "-", "4", "-", "n", "c", "3", "-", "a", "n", "d", "-", "5", "-", "b", "g", "5">>, <<"-", "w", "i", "t", "h", "-", "4", "-", "b", "c", "4">>, <<"-", "w", "i", "t", "h", "-", "7", "-", "O", "-", "O", "-", "O">>}
MoveParts == {<<"-", "3", ".", ".", ".", "N", "f", "6">>, <<"-", "4", ".", "g", "3">>, <<".", ".", ".", "8", ".", "N", "f", "3">>, <<"-", "e", "5">>, <<"-", "4", "g", "3">>}
Urls ==
    [prefix : UrlPrefixes, name : SlugNames,
     parts : SeqsUpTo(WithParts \cup MoveParts, MaxSlugParts)]
UrlText(u) == u.prefix \o u.name \o Concat(u.parts)

\* ---- Extra-moves fragments: hyphen-led pieces, each a move number on its
\* own, a move, or a move fused to its number as the catalog URLs write it
NumberPieces == {<<"-", "5">>, <<"-", "3", ".", ".", ".">>}
MovePieces == {<<"-", "N", "f", "6">>, <<"-", "g", "3">>, <<"-", "O", "-", "O">>}
FusedPieces == {<<"-", "4", ".", "g", "3">>, <<"-", "3", ".", ".", ".", "N", "f", "6">>}
Fragments ==
    [prefix : {<<>>}, name : {<<>>},
     parts : SeqsUpTo(NumberPieces \cup MovePieces \cup FusedPieces, MaxPieces)]

\* ---- Fragments of any tokens: numbers with 0 to 4 dots, moves, fused moves,
\* a leading ellipsis, a doubled hyphen
TokenPieces ==
    NumberPieces \cup MovePieces \cup FusedPieces
    \cup {<<"-", "5", ".">>, <<"-", "5", ".", ".">>, <<"-", "5", ".", ".", ".", ".">>, <<".", ".", ".", "8", ".", "N", "f", "3">>, <<"-">>}
TokenFragments ==
    [prefix : {<<>>}, name : {<<>>}, parts : SeqsUpTo(TokenPieces, MaxTokens)]

\* ---- Catalog rows
Row(trimSlug, fullName, family) ==
    [trim_slug |-> trimSlug, full_name |-> fullName, family |-> family,
     base_name |-> family, variation_1 |-> null, variation_2 |-> null,
     variation_3 |-> null, variation_4 |-> null, variation_5 |-> null,
     variation_6 |-> null]
AllRows ==
    << Row(<<"i", "t", "a", "l", "i", "a", "n", "-", "g", "a", "m", "e">>, "Italian Game", "Italian Game"),
       Row(<<"i", "t", "a", "l", "i", "a", "n", "-", "g", "a", "m", "e", "-", "w", "i", "t", "h", "-", "4", "-", "b", "c", "4">>, "Italian Game with 4.Bc4", "Italian Game"),
       Row(<<"i", "t", "a", "l", "i", "a", "n", "-", "g", "a", "m", "e", "-", "w", "i", "t", "h", "-", "4", "-", "b", "c", "4", "-", "w", "i", "t", "h", "-", "5", "-", "d", "3">>, "Italian Game with 5.d3", "Italian Game"),
       Row(<<"r", "u", "y", "-", "l", "o", "p", "e", "z">>, "Ruy Lopez", "Ruy Lopez") >>
RowSlugs == {AllRows[i].trim_slug : i \in 1..Len(AllRows)}
Catalogs == {BuildCache(SelectSeq(AllRows, LAMBDA r : r.trim_slug \in K), 1, <<>>) :
                K \in SUBSET RowSlugs}
LookupSlugs == RowSlugs \cup {<<"i", "t", "a", "l", "i", "a", "n", "-", "g", "a", "m", "e", "-", "w", "i", "t", "h", "-", "5", "-", "d", "3">>, <<"s", "i", "c", "i", "l", "i", "a", "n", "-", "d", "e", "f", "e", "n", "s", "e">>,
                              <<"s", "i", "c", "i", "l", "i", "a", "n", "-", "d", "e", "f", "e", "n", "s", "e", "-", "w", "i", "t", "h", "-", "2", "-", "n", "c", "3">>, <<"-", "w", "i", "t", "h", "-", "4", "-", "b", "c", "4">>}

\* ---- Tables of the openings database: rows whose slugs coincide once
\* trimmed and lower-cased, rows with no slug, rows with absent columns
RowVocab ==
    {Row(<<"i", "t", "a", "l", "i", "a", "n", "-", "g", "a", "m", "e">>, "Italian Game", "Italian Game"),
     Row(<<" ", "I", "t", "a", "l", "i", "a", "n", "-", "G", "a", "m", "e">>, "Giuoco Piano", null),
     [Row(<<"r", "u", "y", "-", "l", "o", "p", "e", "z">>, null, "Ruy Lopez") EXCEPT !.variation_1 = "Morphy Defense",
                                                   !.variation_6 = "Closed"],
     Row(<<>>, "No Slug", "No Slug"),
     Row(<<" ", " ">>, "Blank Slug", "Blank Slug")}
Tables == SeqsUpTo(RowVocab, MaxRows)

\* ---- The openings database over time
Stores ==
    {StoreOf("missing", <<>>), StoreOf("unreadable", <<>>), StoreOf("badquery", <<>>),
     StoreOf("ok", SubSeq(AllRows, 1, 1)), StoreOf("ok", SubSeq(AllRows, 1, 2))}
\* Milliseconds between two readings of the clock
Delays == {0, CACHE_DURATION_MS - 1, CACHE_DURATION_MS, CACHE_DURATION_MS + 1}
Calls == 1..MaxCalls

\* ---- Games with clock annotations, written as chess.com writes them:
\* `n. move {[%clk ...]}` for White, `n... move {[%clk ...]}` for Black
ClockPlyVocab == {<<"e", "4">>, <<"N", "x", "f", "6">>, <<"e", "x", "d", "5">>, <<"e", "8", "=", "Q">>, <<"O", "-", "O">>, <<"O", "-", "O", "-", "O">>,
                  <<"N", "f", "3", "+">>, <<"Q", "h", "7", "#">>}
ClockTexts == {<<>>, <<"0", ":", "0", "2", ":", "5", "9", ".", "9">>, <<"1", ":", "0", "0", ":", "0", "0">>}
ClockGames ==
    [tags : {<<>>, <<WhiteX>>}, sep : BOOLEAN,
     plies : SeqsUpTo([move : ClockPlyVocab, clk : ClockTexts], MaxClockPlies)]
ClockPlyText(g, i) ==
    LET n == <<DigitChar(i \div 2 + 1)>>
        ply == g.plies[i + 1]
    IN  (IF i = 0 THEN <<>> ELSE <<" ">>)
        \o n \o (IF i % 2 = 0 THEN <<".", " ">> ELSE <<".", ".", ".", " ">>) \o ply.move
        \o (IF ply.clk = <<>> THEN <<>> ELSE <<" ", "{", "[", "%", "c", "l", "k", " ">> \o ply.clk \o <<"]", "}">>)
ClockRender(g) ==
    Concat([k \in 1..Len(g.tags) |-> TagLine(g.tags[k])])
    \o (IF g.sep THEN <<"\n">> ELSE <<>>)
    \o Concat([k \in 1..Len(g.plies) |-> ClockPlyText(g, k - 1)])

\* ---- Games in which every move carries a clock reading
ReadingTexts == {<<"0", ":", "0", "0", ":", "0", "0">>, <<"0", ":", "0", "2", ":", "5", "9", ".", "9">>, <<"0", ":", "1", "0", ":", "0", "5", ".", "3">>, <<"1", ":", "0", "0", ":", "0", "0">>, <<"1", "0", ":", "0", "0", ":", "0", "0", ".", "0">>}
ReadingGames ==
    [tags : {<<WhiteX>>}, sep : {TRUE},
     plies : SeqsUpTo([move : {<<"e", "4">>, <<"O", "-", "O">>}, clk : ReadingTexts], MaxReadings)]

\* ---- Ratings, stored games and archives
Formats == {"blitz", "rapid"}
Ratings == {NoRating, RatingOf(0), RatingOf(1500), RatingOf(1510)}
StoredRow(format, rating, epoch) ==
    [format |-> format, my_rating |-> rating, end_epoch |-> epoch,
     rating_before |-> NoRating, rating_delta |-> NoRating]
StoredTables ==
    {<<>>,
     <<StoredRow("blitz", RatingOf(1500), 1)>>,
     <<StoredRow("blitz", RatingOf(1510), 2), StoredRow("blitz", RatingOf(1500), 1),
       StoredRow("rapid", NoRating, 3)>>}
\* The games of a player in the order they ended, one per second; the
\* archives list them in that order or in the opposite one
FetchInputs ==
    [played : SeqsUpTo([format : Formats, rating : {RatingOf(1500), RatingOf(1510)}], MaxGames),
     reversed : BOOLEAN]
ArchiveGame(in, k) ==
    [id |-> k, format |-> in.played[k].format, rating |-> in.played[k].rating,
     end_time |-> k]
Listed(in, from, to) ==
    [k \in 1..(to - from + 1) |->
        IF in.reversed THEN ArchiveGame(in, to - k + 1) ELSE ArchiveGame(in, from + k - 1)]
\* Two monthly archives: the first half of the games, then the rest
Archives(in) ==
    LET n == Len(in.played)
        h == (n + 1) \div 2
    IN  <<Listed(in, 1, h), Listed(in, h + 1, n)>>

\* ---- loadOpeningsDb calls that may overlap
Loaders == 1..MaxLoads
\* A call starts at the instant of the one before it or a cache window later
LoadDelays == {0, CACHE_DURATION_MS}

\* ---- getOpeningDataForGame calls: call g awaits loadOpeningsDb call g
Gets == 1..MaxGets
GetUrls ==
    {<<>>,
     <<"h", "t", "t", "p", "s", ":", "/", "/", "x", "/", "o", "p", "e", "n", "i", "n", "g", "s", "/", "i", "t", "a", "l", "i", "a", "n", "-", "g", "a", "m", "e">>,
     <<"h", "t", "t", "p", "s", ":", "/", "/", "w", "w", "w", ".", "c", "h", "e", "s", "s", ".", "c", "o", "m", "/", "o", "p", "e", "n", "i", "n", "g", "s", "/", "-", "3", ".", ".", ".", "N", "f", "6">>,
     <<"h", "t", "t", "p", "s", ":", "/", "/", "w", "w", "w", ".", "c", "h", "e", "s", "s", ".", "c", "o", "m", "/", "o", "p", "e", "n", "i", "n", "g", "s", "/", "i", "t", "a", "l", "i", "a", "n", "-", "g", "a", "m", "e">>,
     <<"h", "t", "t", "p", "s", ":", "/", "/", "w", "w", "w", ".", "c", "h", "e", "s", "s", ".", "c", "o", "m", "/", "o", "p", "e", "n", "i", "n", "g", "s", "/", "I", "t", "a", "l", "i", "a", "n", "-", "G", "a", "m", "e">>,
     <<"h", "t", "t", "p", "s", ":", "/", "/", "w", "w", "w", ".", "c", "h", "e", "s", "s", ".", "c", "o", "m", "/", "o", "p", "e", "n", "i", "n", "g", "s", "/", "I", "t", "a", "l", "i", "a", "n", "-", "G", "a", "m", "e", "-", "w", "i", "t", "h", "-", "4", "-", "b", "c", "4", "-", "3", ".", ".", ".", "N", "f", "6">>,
     <<"h", "t", "t", "p", "s", ":", "/", "/", "w", "w", "w", ".", "c", "h", "e", "s", "s", ".", "c", "o", "m", "/", "o", "p", "e", "n", "i", "n", "g", "s", "/", "s", "i", "c", "i", "l", "i", "a", "n", "-", "d", "e", "f", "e", "n", "s", "e", "-", "4", ".", "g", "3">>}
\* A store whose only row spells its slug in mixed case, with a trailing blank
MixedCaseRows == << Row(<<"I", "t", "a", "l", "i", "a", "n", "-", "G", "a", "m", "e", " ">>, "Italian Game", "Italian Game") >>
GetStores ==
    {StoreOf("missing", <<>>), StoreOf("badquery", <<>>),
     StoreOf("ok", MixedCaseRows), StoreOf("ok", SubSeq(AllRows, 1, 2))}
\* The games of one batch are processed without the clock advancing
GetDelays == {0}

\* No read of the store has ended for the call
NoFetch == StoreOf("none", <<>>)

----------------------------------------------------------------------------
(* The scripts                                                             *)

\* No tracker, an empty games table, main not running
idleFetch == [run |-> 0, i |-> 0, firstRun |-> <<>>]
RatingIdle ==
    /\ ledger = emptyLedger /\ table = <<>> /\ log = <<>> /\ fetch = idleFetch

PureIdle ==
    /\ pgn = <<>> /\ game = <<>> /\ parsed = <<>> /\ moves = <<>> /\ stats = <<>>
    /\ ecoUrl = <<>> /\ eco = <<>> /\ db = <<>> /\ slug = <<>> /\ opening = <<>>
    /\ RatingIdle

CacheInit ==
    /\ openingsCache = NoCache
    /\ lastCacheTime = 0
    /\ now = 1
    /\ store \in Stores
    /\ calls = [c \in Calls |-> idleCall]
    /\ reads = 0
    /\ fetched = [c \in Calls |-> NoFetch]
    /\ gets = [g \in Gets |-> idleGet]

CacheIdle ==
    /\ RatingIdle
    /\ openingsCache = NoCache /\ lastCacheTime = 0 /\ now = 1
    /\ store = StoreOf("missing", <<>>)
    /\ calls = [c \in Calls |-> idleCall]
    /\ reads = 0
    /\ fetched = [c \in Calls |-> NoFetch]
    /\ gets = [g \in Gets |-> idleGet]

\* const { headers, moves } = parsePGN(pgn)      (game-analyzer.js:116)
ParsePGN ==
    /\ pc = "pgn"
    /\ parsed' = parsePGN(pgn)
    /\ pc' = "parsed"
    /\ UNCHANGED <<pgn, game, moves, stats, ecoUrl, eco, db, slug, opening>>
    /\ UNCHANGED cacheVars
    /\ UNCHANGED ratingVars

\* const moveData = parseMovesAndClocks(game.pgn)   (chess-fetcher.js:786)
ParseMovesAndClocks ==
    /\ pc = "clk"
    /\ parsed' = parseMovesAndClocks(pgn)
    /\ pc' = "clocked"
    /\ UNCHANGED <<pgn, game, moves, stats, ecoUrl, eco, db, slug, opening>>
    /\ UNCHANGED cacheVars
    /\ UNCHANGED ratingVars

\* const stats = analyzeMoves(moves)             (game-analyzer.js:117)
AnalyzeParsed ==
    /\ pc = "parsed"
    /\ moves' = parsed.moves
    /\ stats' = analyzeMoves(parsed.moves)
    /\ pc' = "analyzed"
    /\ UNCHANGED <<pgn, game, parsed, ecoUrl, eco, db, slug, opening>>
    /\ UNCHANGED cacheVars
    /\ UNCHANGED ratingVars

\* analyzeMoves on a move list of any shape
AnalyzeMoves ==
    /\ pc = "moves"
    /\ stats' = analyzeMoves(moves)
    /\ pc' = "analyzed"
    /\ UNCHANGED <<pgn, game, parsed, moves, ecoUrl, eco, db, slug, opening>>
    /\ UNCHANGED cacheVars
    /\ UNCHANGED ratingVars

\* const { baseSlug, extraMoves } = splitEcoUrl(ecoUrl)   (chess-fetcher.js:501)
SplitEcoUrl ==
    /\ pc = "url"
    /\ LET r == splitEcoUrl(ecoUrl)
       IN  eco' = [baseSlug |-> r.baseSlug, extraMoves |-> r.extraMoves, formatted |-> <<>>]
    /\ pc' = "split"
    /\ UNCHANGED <<pgn, game, parsed, moves, stats, ecoUrl, db, slug, opening>>
    /\ UNCHANGED cacheVars
    /\ UNCHANGED ratingVars

\* extraMoves: formatExtraMoves(extraMoves)      (chess-fetcher.js:514, 529)
FormatExtraMoves ==
    /\ pc = "split"
    /\ eco' = [eco EXCEPT !.formatted = formatExtraMoves(eco.extraMoves)]
    /\ pc' = "formatted"
    /\ UNCHANGED <<pgn, game, parsed, moves, stats, ecoUrl, db, slug, opening>>
    /\ UNCHANGED cacheVars
    /\ UNCHANGED ratingVars

\* const opening = lookupOpening(db, baseSlug)   (chess-fetcher.js:508)
LookupOpening ==
    /\ pc = "slug"
    /\ opening' = lookupOpening(db, slug)
    /\ pc' = "looked"
    /\ UNCHANGED <<pgn, game, parsed, moves, stats, ecoUrl, eco, db, slug>>
    /\ UNCHANGED cacheVars
    /\ UNCHANGED ratingVars

\* The openings database is replaced, removed or damaged
StoreChange(s) ==
    /\ store # s
    /\ store' = s
    /\ UNCHANGED <<pc, openingsCache, lastCacheTime, now, calls, reads, fetched, gets>>
    /\ UNCHANGED pureVars
    /\ UNCHANGED ratingVars

\* The store a call's read ended on, kept once the call has settled
Fetched(c) == IF calls'[c].pc = "done" /\ calls'[c].read THEN store ELSE fetched[c]

\* A loadOpeningsDb call that starts when no other call is in flight
SeqLoadStart(c, d) ==
    /\ \A k \in Calls : (k < c => calls[k].pc = "done") /\ (k > c => calls[k].pc = "idle")
    /\ LoadStart(c, d)
    /\ fetched' = [fetched EXCEPT ![c] = Fetched(c)]
    /\ UNCHANGED <<pc, gets>>
    /\ UNCHANGED pureVars
    /\ UNCHANGED ratingVars

SeqLoadOpened(c) ==
    /\ LoadOpened(c)
    /\ fetched' = [fetched EXCEPT ![c] = Fetched(c)]
    /\ UNCHANGED <<pc, gets>>
    /\ UNCHANGED pureVars
    /\ UNCHANGED ratingVars
SeqLoadRows(c) ==
    /\ LoadRows(c)
    /\ fetched' = [fetched EXCEPT ![c] = Fetched(c)]
    /\ UNCHANGED <<pc, gets>>
    /\ UNCHANGED pureVars
    /\ UNCHANGED ratingVars

\* loadOpeningsDb calls that may overlap: a call starts at any time after the
\* calls before it have started
OvLoadStart(c, d) ==
    /\ \A k \in Calls : k < c => calls[k].pc # "idle"
    /\ LoadStart(c, d)
    /\ fetched' = [fetched EXCEPT ![c] = Fetched(c)]
    /\ UNCHANGED <<pc, gets>>
    /\ UNCHANGED pureVars
    /\ UNCHANGED ratingVars

OvLoadOpened(c) ==
    /\ LoadOpened(c)
    /\ fetched' = [fetched EXCEPT ![c] = Fetched(c)]
    /\ UNCHANGED <<pc, gets>>
    /\ UNCHANGED pureVars
    /\ UNCHANGED ratingVars

OvLoadRows(c) ==
    /\ LoadRows(c)
    /\ fetched' = [fetched EXCEPT ![c] = Fetched(c)]
    /\ UNCHANGED <<pc, gets>>
    /\ UNCHANGED pureVars
    /\ UNCHANGED ratingVars

\* getOpeningDataForGame calls that may overlap
OvGetStart(g, url, d) ==
    /\ \A k \in Gets : k < g => gets[k].pc # "idle"
    /\ GetStart(g, url, d)
    /\ fetched' = [fetched EXCEPT ![g] = Fetched(g)]
    /\ UNCHANGED pc
    /\ UNCHANGED pureVars
    /\ UNCHANGED ratingVars

OvGetResume(g) ==
    /\ GetResume(g)
    /\ UNCHANGED <<pc, fetched>>
    /\ UNCHANGED pureVars
    /\ UNCHANGED ratingVars

\* const ratingsTracker = new RatingsTracker()   (chess-fetcher.js:920)
MainStart ==
    /\ pc = "main"
    /\ ledger' = emptyLedger
    /\ fetch' = [fetch EXCEPT !.i = 1]
    /\ pc' = "tracker"
    /\ UNCHANGED <<table, log>>
    /\ UNCHANGED pureVars
    /\ UNCHANGED cacheVars

\* await ratingsTracker.loadFromDatabase(db)     (chess-fetcher.js:921)
LoadFromDatabase ==
    /\ pc = "tracker"
    /\ ledger' = loadFromDatabase(table)
    /\ pc' = "loaded"
    /\ UNCHANGED <<table, log, fetch>>
    /\ UNCHANGED pureVars
    /\ UNCHANGED cacheVars

\* A calculateRating call on the loaded tracker
CalculateRating(format, currentRating) ==
    /\ pc = "loaded" /\ fetch.run = 0
    /\ Len(log) < MaxRatingCalls
    /\ LET r == calculateRating(ledger, format, currentRating)
       IN  /\ ledger' = r.ledger
           /\ log' = Append(log, [format |-> format, rating |-> currentRating,
                                  before |-> r.before, delta |-> r.delta,
                                  ledger |-> r.ledger])
    /\ UNCHANGED <<pc, table, fetch>>
    /\ UNCHANGED pureVars
    /\ UNCHANGED cacheVars

\* await insertGame(db, game, USERNAME, ratingsTracker) for the next game of
\* the archives                                  (chess-fetcher.js:948)
InsertGame ==
    /\ pc = "loaded" /\ fetch.run >= 1
    /\ fetch.i <= Len(InsertOrder(Archives(game)))
    /\ LET g == InsertOrder(Archives(game))[fetch.i]
           ratings == calculateRating(ledger, g.format, g.rating)
       IN  /\ ledger' = ratings.ledger
           /\ table' = MapSet(table, g.id, GameRow(g, ratings))
    /\ fetch' = [fetch EXCEPT !.i = @ + 1]
    /\ UNCHANGED <<pc, log>>
    /\ UNCHANGED pureVars
    /\ UNCHANGED cacheVars

\* main returns after the last archive; the program is then run once more
MainEnd ==
    /\ pc = "loaded" /\ fetch.run >= 1
    /\ fetch.i > Len(InsertOrder(Archives(game)))
    /\ IF fetch.run = 1
       THEN /\ fetch' = [fetch EXCEPT !.run = 2, !.firstRun = table]
            /\ pc' = "main"
       ELSE /\ pc' = "fetched"
            /\ UNCHANGED fetch
    /\ UNCHANGED <<ledger, table, log>>
    /\ UNCHANGED pureVars
    /\ UNCHANGED cacheVars

\* ---- parsePGN and analyzeMoves on the games
InitParse ==
    /\ pc = "pgn"
    /\ game \in Games
    /\ pgn = Render(game)
    /\ parsed = <<>> /\ moves = <<>> /\ stats = <<>>
    /\ ecoUrl = <<>> /\ eco = <<>> /\ db = <<>> /\ slug = <<>> /\ opening = <<>>
    /\ CacheIdle
NextParse == ParsePGN \/ AnalyzeParsed
SpecParse == InitParse /\ [][NextParse]_vars

\* ---- parsePGN on the tag texts
InitTags ==
    /\ pc = "pgn"
    /\ game \in TagGames
    /\ pgn = Render(game)
    /\ parsed = <<>> /\ moves = <<>> /\ stats = <<>>
    /\ ecoUrl = <<>> /\ eco = <<>> /\ db = <<>> /\ slug = <<>> /\ opening = <<>>
    /\ CacheIdle
SpecTags == InitTags /\ [][NextParse]_vars

\* ---- parseMovesAndClocks on the games with clock annotations
InitClocks ==
    /\ pc = "clk"
    /\ game \in ClockGames
    /\ pgn = ClockRender(game)
    /\ parsed = <<>> /\ moves = <<>> /\ stats = <<>>
    /\ ecoUrl = <<>> /\ eco = <<>> /\ db = <<>> /\ slug = <<>> /\ opening = <<>>
    /\ CacheIdle
NextClocks == ParseMovesAndClocks
SpecClocks == InitClocks /\ [][NextClocks]_vars

\* ---- parsePGN on the games with commentary
InitStrip ==
    /\ pc = "pgn"
    /\ game \in DecoratedGames
    /\ pgn = DecoratedRender(game)
    /\ parsed = <<>> /\ moves = <<>> /\ stats = <<>>
    /\ ecoUrl = <<>> /\ eco = <<>> /\ db = <<>> /\ slug = <<>> /\ opening = <<>>
    /\ CacheIdle
NextStrip == ParsePGN
SpecStrip == InitStrip /\ [][NextStrip]_vars

\* ---- parseMovesAndClocks on the games with a reading on every move
InitReadings ==
    /\ pc = "clk"
    /\ game \in ReadingGames
    /\ pgn = ClockRender(game)
    /\ parsed = <<>> /\ moves = <<>> /\ stats = <<>>
    /\ ecoUrl = <<>> /\ eco = <<>> /\ db = <<>> /\ slug = <<>> /\ opening = <<>>
    /\ CacheIdle
NextReadings == ParseMovesAndClocks
SpecReadings == InitReadings /\ [][NextReadings]_vars

\* ---- analyzeMoves on the move lists
InitStats ==
    /\ pc = "moves"
    /\ moves \in SeqsUpTo(StatVocab, MaxMoves)
    /\ pgn = <<>> /\ game = <<>> /\ parsed = <<>> /\ stats = <<>>
    /\ ecoUrl = <<>> /\ eco = <<>> /\ db = <<>> /\ slug = <<>> /\ opening = <<>>
    /\ CacheIdle
NextStats == AnalyzeMoves
SpecStats == InitStats /\ [][NextStats]_vars

\* ---- splitEcoUrl and formatExtraMoves on the catalog URLs
InitEco ==
    /\ pc = "url"
    /\ game \in Urls
    /\ ecoUrl = UrlText(game)
    /\ pgn = <<>> /\ parsed = <<>> /\ moves = <<>> /\ stats = <<>>
    /\ eco = <<>> /\ db = <<>> /\ slug = <<>> /\ opening = <<>>
    /\ CacheIdle
NextEco == SplitEcoUrl \/ FormatExtraMoves
SpecEco == InitEco /\ [][NextEco]_vars

\* ---- formatExtraMoves on the fragments
InitFormat ==
    /\ pc = "split"
    /\ game \in Fragments
    /\ eco = [baseSlug |-> <<>>, extraMoves |-> Concat(game.parts), formatted |-> <<>>]
    /\ ecoUrl = <<>>
    /\ pgn = <<>> /\ parsed = <<>> /\ moves = <<>> /\ stats = <<>>
    /\ db = <<>> /\ slug = <<>> /\ opening = <<>>
    /\ CacheIdle
NextFormat == FormatExtraMoves
SpecFormat == InitFormat /\ [][NextFormat]_vars

\* ---- formatExtraMoves on the fragments of any tokens
InitImage ==
    /\ pc = "split"
    /\ game \in TokenFragments
    /\ eco = [baseSlug |-> <<>>, extraMoves |-> Concat(game.parts), formatted |-> <<>>]
    /\ ecoUrl = <<>>
    /\ pgn = <<>> /\ parsed = <<>> /\ moves = <<>> /\ stats = <<>>
    /\ db = <<>> /\ slug = <<>> /\ opening = <<>>
    /\ CacheIdle
NextImage == FormatExtraMoves
SpecImage == InitImage /\ [][NextImage]_vars

\* ---- lookupOpening on the catalogs
InitLookup ==
    /\ pc = "slug"
    /\ db \in Catalogs
    /\ slug \in LookupSlugs
    /\ pgn = <<>> /\ game = <<>> /\ parsed = <<>> /\ moves = <<>> /\ stats = <<>>
    /\ ecoUrl = <<>> /\ eco = <<>> /\ opening = <<>>
    /\ CacheIdle
NextLookup == LookupOpening
SpecLookup == InitLookup /\ [][NextLookup]_vars

\* ---- loadOpeningsDb, one call after the other
InitLoadSeq ==
    /\ pc = "load"
    /\ PureIdle
    /\ CacheInit
NextLoadSeq ==
    \/ \E c \in Calls, d \in Delays : SeqLoadStart(c, d)
    \/ \E c \in Calls : SeqLoadOpened(c)
    \/ \E c \in Calls : SeqLoadRows(c)
    \/ \E s \in Stores : StoreChange(s)
SpecLoadSeq == InitLoadSeq /\ [][NextLoadSeq]_vars

\* ---- loadOpeningsDb, one call on a table that can be read
InitBuild ==
    /\ pc = "build"
    /\ PureIdle
    /\ openingsCache = NoCache /\ lastCacheTime = 0 /\ now = 1
    /\ store \in {StoreOf("ok", rows) : rows \in Tables}
    /\ calls = [c \in Calls |-> idleCall]
    /\ reads = 0
    /\ fetched = [c \in Calls |-> NoFetch]
    /\ gets = [g \in Gets |-> idleGet]
NextBuild == SeqLoadStart(1, 0) \/ SeqLoadOpened(1) \/ SeqLoadRows(1)
SpecBuild == InitBuild /\ [][NextBuild]_vars

\* ---- calculateRating calls on a tracker loaded from a games table
InitRatings ==
    /\ pc = "tracker"
    /\ pgn = <<>> /\ game = <<>> /\ parsed = <<>> /\ moves = <<>> /\ stats = <<>>
    /\ ecoUrl = <<>> /\ eco = <<>> /\ db = <<>> /\ slug = <<>> /\ opening = <<>>
    /\ ledger = emptyLedger /\ table \in StoredTables /\ log = <<>> /\ fetch = idleFetch
    /\ openingsCache = NoCache /\ lastCacheTime = 0 /\ now = 1
    /\ store = StoreOf("missing", <<>>)
    /\ calls = [c \in Calls |-> idleCall]
    /\ reads = 0
    /\ fetched = [c \in Calls |-> NoFetch]
    /\ gets = [g \in Gets |-> idleGet]
NextRatings ==
    \/ LoadFromDatabase
    \/ \E format \in Formats, currentRating \in Ratings : CalculateRating(format, currentRating)
SpecRatings == InitRatings /\ [][NextRatings]_vars

\* ---- main, run twice over the same archives on a games table that starts
\* empty
InitFetch ==
    /\ pc = "main"
    /\ game \in FetchInputs
    /\ pgn = <<>> /\ parsed = <<>> /\ moves = <<>> /\ stats = <<>>
    /\ ecoUrl = <<>> /\ eco = <<>> /\ db = <<>> /\ slug = <<>> /\ opening = <<>>
    /\ ledger = emptyLedger /\ table = <<>> /\ log = <<>>
    /\ fetch = [run |-> 1, i |-> 1, firstRun |-> <<>>]
    /\ openingsCache = NoCache /\ lastCacheTime = 0 /\ now = 1
    /\ store = StoreOf("missing", <<>>)
    /\ calls = [c \in Calls |-> idleCall]
    /\ reads = 0
    /\ fetched = [c \in Calls |-> NoFetch]
    /\ gets = [g \in Gets |-> idleGet]
NextFetch == MainStart \/ LoadFromDatabase \/ InsertGame \/ MainEnd
SpecFetch == InitFetch /\ [][NextFetch]_vars

\* ---- loadOpeningsDb, calls overlapping
InitLoad ==
    /\ pc = "overlap"
    /\ PureIdle
    /\ CacheInit
NextLoad ==
    \/ \E c \in Loaders, d \in LoadDelays : OvLoadStart(c, d)
    \/ \E c \in Loaders : OvLoadOpened(c)
    \/ \E c \in Loaders : OvLoadRows(c)
    \/ \E s \in Stores : StoreChange(s)
SpecLoad == InitLoad /\ [][NextLoad]_vars

\* ---- getOpeningDataForGame, calls overlapping, on a store that stays as it is
InitGet ==
    /\ pc = "get"
    /\ PureIdle
    /\ openingsCache = NoCache /\ lastCacheTime = 0 /\ now = 1
    /\ store \in GetStores
    /\ calls = [c \in Calls |-> idleCall]
    /\ reads = 0
    /\ fetched = [c \in Calls |-> NoFetch]
    /\ gets = [g \in Gets |-> idleGet]
NextGet ==
    \/ \E g \in Gets, url \in GetUrls, d \in GetDelays : OvGetStart(g, url, d)
    \/ \E g \in Gets : OvLoadOpened(g)
    \/ \E g \in Gets : OvLoadRows(g)
    \/ \E g \in Gets : OvGetResume(g)
SpecGet == InitGet /\ [][NextGet]_vars

\* ---- Every script
Init == InitParse \/ InitTags \/ InitStats \/ InitEco \/ InitLookup \/ InitLoadSeq
        \/ InitLoad \/ InitGet \/ InitClocks \/ InitFormat \/ InitStrip \/ InitBuild \/ InitReadings \/ InitImage \/ InitRatings \/ InitFetch
Next == NextParse \/ NextStats \/ NextEco \/ NextLookup \/ NextLoadSeq \/ NextLoad \/ NextGet
        \/ NextClocks \/ NextRatings \/ NextFetch
Spec == Init /\ [][Next]_vars

----------------------------------------------------------------------------
(* Properties                                                              *)

\* A game text of the standard layout: a block of well-formed tags, a blank
\* line, then the move text
WellFormedGame(g) ==
    /\ g.tags # <<>>
    /\ \A k \in 1..Len(g.tags) : WellFormedTag(g.tags[k])
    /\ ~g.lead
    /\ g.sep

\* C1: for every well-formed PGN text (White moves after `n.`, Black moves
\* optionally after `n...`, moves optionally followed by a {...} comment),
\* parsePGN returns exactly the plies of the text, in order.
C1_MovesArePlies ==
    (pc # "pgn" /\ WellFormedGame(game)) => parsed.moves = game.plies

\* C2: parsePGN returns a tag mapping and a move list for any text; the empty
\* text gives both empty, and a text in which no blank line follows the tag
\* block gives an empty move list.
C2_NoBlankLineNoMoves ==
    pc # "pgn" =>
        /\ (pgn = <<>> => parsed = [headers |-> <<>>, moves |-> <<>>])
        /\ (~game.sep => parsed.moves = <<>>)

\* C3: for a text of well-formed tags, the tag mapping holds exactly the
\* distinct tag names of the text, each with the value of its last occurrence.
TagNames(g) == {g.tags[k].name : k \in 1..Len(g.tags)}
LastValue(g, name) ==
    LET last == CHOOSE k \in 1..Len(g.tags) :
                    /\ g.tags[k].name = name
                    /\ \A j \in (k + 1)..Len(g.tags) : g.tags[j].name # name
    IN  g.tags[last].value
C3_TagsLastWins ==
    (pc # "pgn" /\ \A k \in 1..Len(game.tags) : WellFormedTag(game.tags[k])) =>
        /\ DOMAIN parsed.headers = TagNames(game)
        /\ Cardinality(DOMAIN parsed.headers) = Cardinality(TagNames(game))
        /\ \A name \in TagNames(game) : parsed.headers[name] = LastValue(game, name)
C3_Witness ==
    /\ pc = "parsed"
    /\ \A k \in 1..Len(game.tags) : WellFormedTag(game.tags[k])
    /\ \E j, k \in 1..Len(game.tags) :
          /\ j < k
          /\ game.tags[j].name = game.tags[k].name
          /\ game.tags[j].value # game.tags[k].value
    /\ Cardinality(DOMAIN parsed.headers) = 2
    /\ parsed.headers[<<"W", "h", "i", "t", "e">>] = <<"y", " ", "z">>

\* C4: analyzeMoves counts, for every move list, the moves containing x, +,
\* #, O-O and =, each independently, and the moves starting with a file
\* letter, N, B, R, Q and K; totalMoves is the length of the list.
HasChar(m, c) == \E i \in 1..Len(m) : m[i] = c
HasCastle(m) == \E i \in 1..Len(m) : i + 2 <= Len(m) /\ <<m[i], m[i + 1], m[i + 2]>> = <<"O", "-", "O">>
FirstIn(m, class) == Len(m) >= 1 /\ m[1] \in class
CountHas(c) == Cardinality({i \in 1..Len(moves) : HasChar(moves[i], c)})
CountCastles == Cardinality({i \in 1..Len(moves) : HasCastle(moves[i])})
CountFirst(class) == Cardinality({i \in 1..Len(moves) : FirstIn(moves[i], class)})
C4_Counts ==
    pc = "analyzed" =>
        /\ stats.totalMoves = Len(moves)
        /\ stats.captures = CountHas("x")
        /\ stats.checks = CountHas("+")
        /\ stats.checkmates = CountHas("#")
        /\ stats.castles = CountCastles
        /\ stats.promotions = CountHas("=")
        /\ stats.pawnMoves = CountFirst(FileLetters)
        /\ stats.knightMoves = CountFirst({"N"})
        /\ stats.bishopMoves = CountFirst({"B"})
        /\ stats.rookMoves = CountFirst({"R"})
        /\ stats.queenMoves = CountFirst({"Q"})
        /\ stats.kingMoves = CountFirst({"K"})
        /\ (moves = <<<<"N", "x", "f", "6", "+">>>> =>
               stats.captures = 1 /\ stats.checks = 1 /\ stats.knightMoves = 1
               /\ stats.pawnMoves = 0)
        /\ (moves = <<<<"e", "8", "=", "Q", "#">>>> =>
               stats.promotions = 1 /\ stats.checkmates = 1 /\ stats.pawnMoves = 1
               /\ stats.queenMoves = 0)
C4_Witness ==
    /\ pc = "analyzed"
    /\ moves = <<<<"N", "x", "f", "6", "+">>, <<"e", "8", "=", "Q", "#">>, <<"O", "-", "O", "-", "O">>>>
    /\ stats.captures = 1 /\ stats.checks = 1 /\ stats.checkmates = 1
    /\ stats.promotions = 1 /\ stats.castles = 1
    /\ stats.knightMoves = 1 /\ stats.pawnMoves = 1 /\ stats.queenMoves = 0

\* C5: whiteMoves is the subsequence of the moves at even 0-based indices,
\* blackMoves the subsequence at odd indices, both in order; their lengths
\* sum to totalMoves.
C5_SidesByParity ==
    pc = "analyzed" =>
        /\ stats.whiteMoves = [k \in 1..((Len(moves) + 1) \div 2) |-> moves[2 * k - 1]]
        /\ stats.blackMoves = [k \in 1..(Len(moves) \div 2) |-> moves[2 * k]]
        /\ Len(stats.whiteMoves) + Len(stats.blackMoves) = stats.totalMoves
C5_Witness ==
    /\ pc = "analyzed"
    /\ Len(moves) = 3
    /\ moves[1] # moves[2]
    /\ stats.whiteMoves = <<moves[1], moves[3]>>
    /\ stats.blackMoves = <<moves[2]>>

\* C6: a URL that is empty, or does not contain the catalog path marker
\* chess.com/openings/, or has nothing after the marker, splits into an empty
\* base slug and an empty extra-moves fragment.
CatalogMarker == <<"c", "h", "e", "s", "s", ".", "c", "o", "m", "/", "o", "p", "e", "n", "i", "n", "g", "s", "/">>
OccursAt(s, i, lit) == i + Len(lit) - 1 <= Len(s) /\ SubSeq(s, i, i + Len(lit) - 1) = lit
Occurs(s, lit) == \E i \in 1..Len(s) : OccursAt(s, i, lit)
EndsWith(s, lit) == Len(s) >= Len(lit) /\ OccursAt(s, Len(s) - Len(lit) + 1, lit)
C6_NoMarkerNoSlug ==
    (/\ pc # "url"
     /\ \/ ecoUrl = <<>>
        \/ ~Occurs(ecoUrl, CatalogMarker)
        \/ EndsWith(ecoUrl, CatalogMarker))
    => (eco.baseSlug = <<>> /\ eco.extraMoves = <<>>)
C6_Witness ==
    /\ pc = "split"
    /\ Occurs(ecoUrl, <<"/", "o", "p", "e", "n", "i", "n", "g", "s", "/", "q">>)
    /\ ~Occurs(ecoUrl, CatalogMarker)
    /\ eco.baseSlug = <<>> /\ eco.extraMoves = <<>>

\* C7: the whole clause with-4-nc3-and-5-bg5 stays in the base slug, and no
\* with-clause of a slug is cut by the split.
QgdSlug == <<"q", "u", "e", "e", "n", "s", "-", "g", "a", "m", "b", "i", "t", "-", "d", "e", "c", "l", "i", "n", "e", "d", "-", "w", "i", "t", "h", "-", "4", "-", "n", "c", "3", "-", "a", "n", "d", "-", "5", "-", "b", "g", "5">>
\* The slug of game g holds part k at the positions Offset(g, k) + 1 .. Offset(g, k + 1)
RECURSIVE Offset(_, _)
Offset(g, k) == IF k = 1 THEN Len(g.name) ELSE Offset(g, k - 1) + Len(g.parts[k - 1])
NoClauseCut ==
    pc # "url" =>
        \A k \in 1..Len(game.parts) :
            game.parts[k] \in WithParts =>
                ~(/\ Offset(game, k) + 2 <= Len(eco.baseSlug)
                  /\ Len(eco.baseSlug) < Offset(game, k + 1))
\* as stated: for the URL https://x/openings/queens-gambit-declined-with-4-nc3-and-5-bg5
C7_ClauseKeptAnyHost ==
    /\ (pc # "url" /\ ecoUrl = <<"h", "t", "t", "p", "s", ":", "/", "/", "x", "/", "o", "p", "e", "n", "i", "n", "g", "s", "/">> \o QgdSlug)
           => (eco.baseSlug = QgdSlug /\ eco.extraMoves = <<>>)
    /\ NoClauseCut
\* C7 (amended): for the URL https://www.chess.com/openings/queens-gambit-declined-with-4-nc3-and-5-bg5
\* the base slug is the whole slug and the extra moves are empty; for every
\* URL no with-clause is cut by the split.
C7_ClauseKept ==
    /\ (pc # "url" /\ ecoUrl = <<"h", "t", "t", "p", "s", ":", "/", "/", "w", "w", "w", ".", "c", "h", "e", "s", "s", ".", "c", "o", "m", "/", "o", "p", "e", "n", "i", "n", "g", "s", "/">> \o QgdSlug)
           => (eco.baseSlug = QgdSlug /\ eco.extraMoves = <<>>)
    /\ (pc # "url" /\ Occurs(ecoUrl, CatalogMarker) /\ game.name # <<>>
        /\ game.parts # <<>> /\ \A k \in 1..Len(game.parts) : game.parts[k] \in WithParts)
           => (eco.baseSlug = ToLowerCase(game.name \o Concat(game.parts))
               /\ eco.extraMoves = <<>>)
    /\ NoClauseCut
C7_Witness ==
    /\ pc = "split"
    /\ ecoUrl = <<"h", "t", "t", "p", "s", ":", "/", "/", "w", "w", "w", ".", "c", "h", "e", "s", "s", ".", "c", "o", "m", "/", "o", "p", "e", "n", "i", "n", "g", "s", "/">> \o QgdSlug
    /\ eco.baseSlug = QgdSlug
    /\ eco.extraMoves = <<>>

\* C8: for a catalog URL whose slug ends in -3...Nf6, formatting the extra
\* moves of the split gives "3... Nf6".
C8_RoundTrip ==
    (/\ pc = "formatted"
     /\ Occurs(ecoUrl, CatalogMarker)
     /\ game.name # <<>>
     /\ game.parts # <<>>
     /\ game.parts[Len(game.parts)] = <<"-", "3", ".", ".", ".", "N", "f", "6">>
     /\ \A k \in 1..(Len(game.parts) - 1) : game.parts[k] \in WithParts)
    => eco.formatted = <<"3", ".", ".", ".", " ", "N", "f", "6">>

\* C9: lookupOpening returns the entry under the slug when that key exists;
\* otherwise the entry under the text before the first -with- when the slug
\* has one and that key exists; otherwise null. No other key is tried.
HasWith(s) == Occurs(s, <<"-", "w", "i", "t", "h", "-">>)
BeforeFirstWith(s) ==
    LET first == CHOOSE i \in 1..Len(s) :
                     /\ OccursAt(s, i, <<"-", "w", "i", "t", "h", "-">>)
                     /\ \A j \in 1..(i - 1) : ~OccursAt(s, j, <<"-", "w", "i", "t", "h", "-">>)
    IN  SubSeq(s, 1, first - 1)
C9_TwoStepLookup ==
    pc = "looked" =>
        opening = IF slug \in DOMAIN db THEN db[slug]
                  ELSE IF HasWith(slug) /\ BeforeFirstWith(slug) \in DOMAIN db
                       THEN db[BeforeFirstWith(slug)]
                       ELSE NoOpening
C9_Witness ==
    /\ pc = "looked"
    /\ slug = <<"i", "t", "a", "l", "i", "a", "n", "-", "g", "a", "m", "e", "-", "w", "i", "t", "h", "-", "4", "-", "b", "c", "4">>
    /\ slug \notin DOMAIN db
    /\ <<"i", "t", "a", "l", "i", "a", "n", "-", "g", "a", "m", "e">> \in DOMAIN db
    /\ opening = db[<<"i", "t", "a", "l", "i", "a", "n", "-", "g", "a", "m", "e">>]
    /\ opening.slug = <<"i", "t", "a", "l", "i", "a", "n", "-", "g", "a", "m", "e">>

\* C10: with one call after the other, a call within the cache window returns
\* the mapping of the previous call without a read, and a read happens only
\* on the first call or when the cache age exceeds 5 minutes.
Started == {c \in Calls : calls[c].pc # "idle"}
Age(c) == calls[c].now - calls[c].seenTime
ReturnsPrevious(c) ==
    /\ ~calls[c].read
    /\ calls[c].pc = "done"
    /\ calls[c].result = calls[c - 1].result
C10_ReadOnlyAfterWindow ==
    pc = "load" =>
        \A c \in Started :
            /\ (c > 1 /\ Age(c) < CACHE_DURATION_MS) => ReturnsPrevious(c)
            /\ calls[c].read => (c = 1 \/ Age(c) > CACHE_DURATION_MS)
\* C10 (amended): a call made less than 5 minutes after the time stamp of the
\* cache returns the mapping of the previous call without a read; a read
\* happens exactly on the first call and on every call made 5 minutes or
\* more after the time stamp, once per such call.
C10_ReadFromWindowEnd ==
    pc = "load" =>
        /\ \A c \in Started :
              /\ (c > 1 /\ Age(c) < CACHE_DURATION_MS) => ReturnsPrevious(c)
              /\ calls[c].read <=> (c = 1 \/ Age(c) >= CACHE_DURATION_MS)
        /\ reads = Cardinality({c \in Started : calls[c].read})
C10_Witness ==
    /\ pc = "load"
    /\ \E c \in Started :
          c > 1 /\ calls[c].pc = "done" /\ calls[c].read /\ Age(c) = CACHE_DURATION_MS
    /\ \E c \in Started :
          c > 1 /\ ~calls[c].read /\ Age(c) = CACHE_DURATION_MS - 1
          /\ ~calls[c].result.isNull
          /\ calls[c].result = calls[c - 1].result

----------------------------------------------------------------------------
\* The mapping one complete read of store s gives: empty when the store cannot
\* be read, otherwise one entry per normalised non-empty slug, built from the
\* last row that carries it
SlugOf(row) == ToLowerCase(Trim(row.trim_slug))
LastRowOf(s, k) ==
    CHOOSE i \in 1..Len(s.rows) :
        SlugOf(s.rows[i]) = k /\ \A j \in (i + 1)..Len(s.rows) : SlugOf(s.rows[j]) # k
CompleteMap(s) ==
    IF s.state # "ok" THEN <<>>
    ELSE [k \in {SlugOf(s.rows[i]) : i \in 1..Len(s.rows)} \ {<<>>} |->
             EntryOf(s.rows[LastRowOf(s, k)], k)]
Complete(cache) ==
    \/ cache.isNull
    \/ \E c \in Calls : fetched[c] # NoFetch /\ cache.map = CompleteMap(fetched[c])

\* C11: under any interleaving of overlapping loadOpeningsDb calls, the cache
\* and every mapping a caller was handed are unset, empty, or the mapping of
\* one complete read of the store; no half-built mapping is ever visible.
C11_NeverHalfBuilt ==
    /\ Complete(openingsCache)
    /\ \A c \in Calls : calls[c].pc = "done" =>
           ~calls[c].result.isNull /\ Complete(calls[c].result)

\* Two calls made at the same instant both read, the store changed between
\* their reads, and each holds the complete mapping of its own read
C11_Witness ==
    \E c1, c2 \in Calls :
        /\ calls[c1].pc = "done" /\ calls[c2].pc = "done"
        /\ calls[c1].read /\ calls[c2].read
        /\ calls[c1].now = calls[c2].now
        /\ Cardinality(DOMAIN calls[c1].result.map) = 1
        /\ Cardinality(DOMAIN calls[c2].result.map) = 2
        /\ openingsCache \in {calls[c1].result, calls[c2].result}

\* C12: once a call has started a read at time t, no other call made before
\* t + 5 minutes starts a second read, calls made while the first read is in
\* flight included.
C12_OneReadPerWindow ==
    \A c1, c2 \in Calls :
        (c1 # c2 /\ calls[c1].read /\ calls[c2].read /\ calls[c1].now <= calls[c2].now)
            => calls[c2].now - calls[c1].now >= CACHE_DURATION_MS

\* C12 (amended): a call reads exactly when, at its start, no load has
\* completed yet or the load whose result is in the cache started 5 minutes
\* or more before; two reads started less than 5 minutes apart happen only
\* when the later call did not find the earlier call's result in the cache
\* (the earlier read was still in flight, or an older load completed after it).
C12_ReadUnlessCached ==
    /\ \A c \in Calls : calls[c].pc # "idle" =>
           (calls[c].read <=> (calls[c].seenTime = 0
                               \/ calls[c].now - calls[c].seenTime >= CACHE_DURATION_MS))
    /\ \A c1, c2 \in Calls :
           (c1 < c2 /\ calls[c1].read /\ calls[c2].read
            /\ calls[c2].now - calls[c1].now < CACHE_DURATION_MS)
               => calls[c2].seenTime # calls[c1].now
    /\ reads = Cardinality({c \in Calls : calls[c].read})

\* Two calls made at the same instant on a cold cache have both gone to the store
C12_Witness ==
    /\ reads = 2
    /\ \E c1, c2 \in Calls :
        /\ c1 < c2
        /\ calls[c1].read /\ calls[c2].read
        /\ calls[c1].seenTime = 0 /\ calls[c2].seenTime = 0
        /\ calls[c1].now = calls[c2].now
        /\ calls[c1].pc = "opening" /\ calls[c2].pc = "opening"

\* C13: while every read has ended on the store as it is now, every resolved
\* call holds the mapping of that store, and once no call is in flight the
\* cache holds it too.
StoreUnchanged == \A c \in Calls : fetched[c] # NoFetch => fetched[c] = store
C13_Converges ==
    StoreUnchanged =>
        /\ \A c \in Calls : calls[c].pc = "done" =>
               calls[c].result = CacheOf(CompleteMap(store))
        /\ ((\E c \in Calls : calls[c].pc = "done")
            /\ (\A c \in Calls : calls[c].pc \in {"idle", "done"}))
               => openingsCache = CacheOf(CompleteMap(store))

\* Two calls that overlapped have both read a readable store and resolved
C13_Witness ==
    /\ StoreUnchanged
    /\ store.state = "ok"
    /\ \E c1, c2 \in Calls :
        /\ c1 # c2
        /\ calls[c1].pc = "done" /\ calls[c2].pc = "done"
        /\ calls[c1].read /\ calls[c2].read
        /\ calls[c1].now = calls[c2].now

\* C14: a call never rejects; when its read ended on a store that is missing,
\* cannot be opened or fails its query, it resolves with the empty mapping.
Unavailable == {"missing", "unreadable", "badquery"}
C14_NeverRejects ==
    \A c \in Calls :
        /\ calls[c].pc \in {"idle", "opening", "querying", "done"}
        /\ (calls[c].pc = "done" /\ fetched[c].state \in Unavailable)
               => calls[c].result = CacheOf(<<>>)

\* One call has resolved after a failed query and another after a failed open
C14_Witness ==
    \E c1, c2 \in Calls :
        /\ calls[c1].pc = "done" /\ fetched[c1].state = "badquery"
        /\ calls[c2].pc = "done" /\ fetched[c2].state = "unreadable"

----------------------------------------------------------------------------
\* The mapping call g looked its slug up in, and what the split of its URL is
CatalogOf(g) == calls[g].result.map
SplitOf(g) == splitEcoUrl(gets[g].ecoUrl)
NotInCatalog(g, key) ==
    /\ key \notin DOMAIN CatalogOf(g)
    /\ HasWith(key) => BeforeFirstWith(key) \notin DOMAIN CatalogOf(g)
EmptyFields(data) ==
    /\ data.openingName = "" /\ data.openingFamily = "" /\ data.openingBase = ""
    /\ data.var1 = "" /\ data.var2 = "" /\ data.var3 = ""
    /\ data.var4 = "" /\ data.var5 = "" /\ data.var6 = ""

\* C15: when neither the base slug nor its -with- fallback is in the catalog,
\* getOpeningDataForGame resolves to a result whose name, family, base name
\* and variation fields are empty and whose extraMoves is the formatted
\* extra-moves fragment of the URL.
C15_NoMatchKeepsExtraMoves ==
    \A g \in Gets :
        (gets[g].pc = "done" /\ NotInCatalog(g, SplitOf(g).baseSlug)) =>
            /\ EmptyFields(gets[g].data)
            /\ gets[g].data.extraMoves = formatExtraMoves(SplitOf(g).extraMoves)

\* C15 (amended): the same for a URL with a non-empty base slug; a URL from
\* which no base slug can be split gives the all-empty result, extraMoves
\* included.
C15_NoMatchWithBaseSlug ==
    \A g \in Gets :
        gets[g].pc = "done" =>
            IF SplitOf(g).baseSlug = <<>>
            THEN gets[g].data = emptyData
            ELSE NotInCatalog(g, SplitOf(g).baseSlug) =>
                    /\ EmptyFields(gets[g].data)
                    /\ gets[g].data.openingSlug = SplitOf(g).baseSlug
                    /\ gets[g].data.extraMoves = formatExtraMoves(SplitOf(g).extraMoves)

\* One call found nothing in a catalog with entries, another nothing in the
\* empty catalog of a store whose query fails; both kept their extra moves
C15_Witness ==
    \E g, h \in Gets :
        /\ gets[g].pc = "done" /\ gets[h].pc = "done"
        /\ gets[g].data.openingName = "" /\ gets[g].data.extraMoves # <<>>
        /\ gets[g].data.openingSlug # <<>>
        /\ gets[h].data.openingName = "" /\ gets[h].data.extraMoves # <<>>
        /\ gets[h].ecoUrl # gets[g].ecoUrl
        /\ CatalogOf(g) = <<>> /\ store.state = "badquery"

\* C16: the base slug holds no upper-case letter, two URLs that differ only in
\* letter case resolve to the same entry, and a row is found under its slug
\* whatever the letter case the row spells it in.
NoUpper(s) == \A i \in 1..Len(s) : s[i] \notin UpperLetters
RowsFor(key) ==
    {i \in 1..Len(store.rows) : ToLowerCase(Trim(store.rows[i].trim_slug)) = key}
C16_CaseInsensitive ==
    \A g \in Gets :
        gets[g].pc = "done" =>
            /\ NoUpper(gets[g].baseSlug)
            /\ NoUpper(gets[g].data.openingSlug)
            /\ \A h \in Gets :
                   (gets[h].pc = "done"
                    /\ ToLowerCase(gets[h].ecoUrl) = ToLowerCase(gets[g].ecoUrl))
                       => gets[h].data = gets[g].data
            /\ (store.state = "ok" /\ gets[g].baseSlug # <<>>
                /\ RowsFor(gets[g].baseSlug) # {})
                   => \E i \in RowsFor(gets[g].baseSlug) :
                          gets[g].data.openingName = store.rows[i].full_name

\* Two URLs that differ in letter case found the row whose slug is spelt in
\* mixed case
C16_Witness ==
    \E g, h \in Gets :
        /\ gets[g].pc = "done" /\ gets[h].pc = "done"
        /\ gets[g].ecoUrl # gets[h].ecoUrl
        /\ ToLowerCase(gets[g].ecoUrl) = ToLowerCase(gets[h].ecoUrl)
        /\ store.rows = MixedCaseRows
        /\ gets[g].data.openingName = "Italian Game"
        /\ gets[h].data.openingName = "Italian Game"

----------------------------------------------------------------------------
\* C17: for every move of the move text that is immediately followed by a
\* clock annotation, parseMovesAndClocks emits exactly one entry carrying that
\* move's notation, in source order, whatever the kind of move.
Annotated(g) == SelectSeq(g.plies, LAMBDA p : p.clk # <<>>)
C17_EntryPerClockedMove ==
    (pc = "clocked" /\ game.tags # <<>> /\ game.sep) =>
        [k \in 1..Len(parsed.movesData) |-> parsed.movesData[k].move]
            = [k \in 1..Len(Annotated(game)) |-> Annotated(game)[k].move]

----------------------------------------------------------------------------
\* The slug a catalog URL was written with, for the URLs the code accepts
SlugOfUrl == game.name \o Concat(game.parts)
CatalogUrl == pc # "url" /\ Occurs(ecoUrl, CatalogMarker) /\ SlugOfUrl # <<>>

\* C18: splitEcoUrl loses and invents no text: the base slug followed by the
\* extra moves is the slug after the marker, up to letter case; without a move
\* sequence the extra moves are empty; neither output holds a placeholder.
C18_NoTextLost ==
    CatalogUrl =>
        /\ ToLowerCase(eco.baseSlug \o eco.extraMoves) = ToLowerCase(SlugOfUrl)
        /\ (\A k \in 1..Len(game.parts) : game.parts[k] \in WithParts)
               => (eco.baseSlug = ToLowerCase(SlugOfUrl) /\ eco.extraMoves = <<>>)
        /\ ~Occurs(ToLowerCase(eco.baseSlug), <<"_", "_", "w", "i", "t", "h", "_">>)
        /\ ~Occurs(ToLowerCase(eco.extraMoves), <<"_", "_", "w", "i", "t", "h", "_">>)

\* A boundary as the code's pattern has it: a hyphen, digits, 0 to 3 dots and
\* a letter; or `...`, digits and a dot; or `...` and a letter
IsBoundary(s, i) ==
    \/ /\ s[i] = "-"
       /\ \E nd \in 1..Len(s), n \in 0..3 :
              /\ i + nd + n + 1 <= Len(s)
              /\ \A k \in 1..nd : s[i + k] \in Digits
              /\ \A k \in 1..n : s[i + nd + k] = "."
              /\ s[i + nd + n + 1] \in Letters
    \/ /\ OccursAt(s, i, <<".", ".", ".">>)
       /\ \E nd \in 1..Len(s) :
              /\ i + 3 + nd <= Len(s)
              /\ \A k \in 1..nd : s[i + 2 + k] \in Digits
              /\ s[i + 3 + nd] = "."
    \/ /\ OccursAt(s, i, <<".", ".", ".">>)
       /\ i + 3 <= Len(s) /\ s[i + 3] \in Letters
\* A boundary as stated: a hyphen followed by 1 to 3 dots and a letter; or
\* `...`, digits and a dot; or `...` and a letter
IsStatedBoundary(s, i) ==
    \/ /\ s[i] = "-"
       /\ \E n \in 1..3 :
              /\ i + n + 1 <= Len(s)
              /\ \A k \in 1..n : s[i + k] = "."
              /\ s[i + n + 1] \in Letters
    \/ /\ OccursAt(s, i, <<".", ".", ".">>)
       /\ \E nd \in 1..Len(s) :
              /\ i + 3 + nd <= Len(s)
              /\ \A k \in 1..nd : s[i + 2 + k] \in Digits
              /\ s[i + 3 + nd] = "."
    \/ /\ OccursAt(s, i, <<".", ".", ".">>)
       /\ i + 3 <= Len(s) /\ s[i + 3] \in Letters
FirstBoundary(s) ==
    IF \E i \in 1..Len(s) : IsBoundary(s, i)
    THEN CHOOSE i \in 1..Len(s) : IsBoundary(s, i) /\ \A j \in 1..(i - 1) : ~IsBoundary(s, j)
    ELSE 0
FirstStatedBoundary(s) ==
    IF \E i \in 1..Len(s) : IsStatedBoundary(s, i)
    THEN CHOOSE i \in 1..Len(s) :
             IsStatedBoundary(s, i) /\ \A j \in 1..(i - 1) : ~IsStatedBoundary(s, j)
    ELSE 0
\* The outputs when the placeholder-protected slug is cut at index b (0: not cut)
Protected == ProtectWith(SlugOfUrl)
SplitAtIs(b) ==
    IF b = 0
    THEN eco.baseSlug = ToLowerCase(SlugOfUrl) /\ eco.extraMoves = <<>>
    ELSE /\ eco.extraMoves = Substring(Protected.slug, b)
         /\ eco.baseSlug = ToLowerCase(RestoreWith(SubSeq(Protected.slug, 1, b - 1),
                                                   Protected.withPatterns))

\* C19: the split is at the first move-sequence boundary of the protected
\* slug, a boundary being a hyphen followed by 1 to 3 dots and a letter, an
\* ellipsis followed by digits and a dot, or an ellipsis followed by a letter;
\* a slug with no boundary is returned whole.
C19_SplitAtStatedBoundary == CatalogUrl => SplitAtIs(FirstStatedBoundary(Protected.slug))

\* C19 (amended): the same with the first kind of boundary being a hyphen
\* followed by digits, 0 to 3 dots and a letter.
C19_SplitAtMoveBoundary == CatalogUrl => SplitAtIs(FirstBoundary(Protected.slug))

\* A slug whose first boundary is a hyphen, a digit and a letter with no dot,
\* after a protected clause, has been split there
C19_Witness ==
    /\ pc = "split"
    /\ Occurs(ecoUrl, CatalogMarker)
    /\ game.name # <<>>
    /\ game.parts = <<<<"-", "w", "i", "t", "h", "-", "4", "-", "b", "c", "4">>, <<"-", "4", "g", "3">>>>
    /\ eco.extraMoves = <<"-", "4", "g", "3">>
    /\ eco.baseSlug = ToLowerCase(game.name) \o <<"-", "w", "i", "t", "h", "-", "4", "-", "b", "c", "4">>

----------------------------------------------------------------------------
\* The token a piece of the fragment is shown as: a number on its own gets a
\* dot, a number with an ellipsis, a move and a fused move stay as written
ShownAs(piece) ==
    LET t == Substring(piece, 2)
    IN  IF \A k \in 1..Len(t) : t[k] \in Digits THEN t \o <<".">> ELSE t
ShownTokens == [k \in 1..Len(game.parts) |-> ShownAs(game.parts[k])]

\* C20: formatExtraMoves returns the empty string for an empty fragment;
\* otherwise the output is the fragment's tokens in source order separated by
\* single spaces, a number `n` shown as `n.`, a number `n...` as written, and
\* each move of the fragment unchanged as one token.
C20_MovesKeptAsTokens ==
    pc = "formatted" =>
        /\ (eco.extraMoves = <<>> => eco.formatted = <<>>)
        /\ eco.formatted = Join(ShownTokens, <<" ">>)

----------------------------------------------------------------------------
\* The moves of the main line of a game with commentary
MainMoves(g) == SubSeq(MainLine, 1, Len(g.decor))

\* C21: no move returned by parsePGN comes from a comment, a variation (nested
\* ones included), an annotation glyph or a `!`/`?` suffix, and the result
\* is never a move or part of one: every move returned is a main-line move.
C21_OnlyMainLineMoves ==
    pc = "parsed" =>
        \A k \in 1..Len(parsed.moves) :
            \E j \in 1..Len(game.decor) : parsed.moves[k] = MainLine[j]

----------------------------------------------------------------------------
\* C22: every move bumps at most one of the six piece-type counters: their
\* sum is at most totalMoves, pieceMoves is the sum of the five non-pawn
\* counters, and a move starting with N, B, R, Q or K is never a pawn move.
NonPawnSum ==
    stats.knightMoves + stats.bishopMoves + stats.rookMoves + stats.queenMoves
    + stats.kingMoves
C22_OnePieceTypePerMove ==
    pc = "analyzed" =>
        /\ stats.pawnMoves + NonPawnSum <= stats.totalMoves
        /\ stats.pieceMoves = NonPawnSum
        /\ stats.pawnMoves <= Cardinality({i \in 1..Len(moves) : ~FirstIn(moves[i], PieceLetters)})
        /\ NonPawnSum = CountFirst(PieceLetters)
\* A knight capture on a file, a pawn move and a castling: one knight move,
\* one pawn move and a move of no piece type
C22_Witness ==
    /\ pc = "analyzed"
    /\ moves = <<<<"N", "x", "f", "6", "+">>, <<"e", "4">>, <<"O", "-", "O">>>>
    /\ stats.pawnMoves = 1 /\ stats.knightMoves = 1 /\ stats.pieceMoves = 1
    /\ stats.totalMoves = 3

----------------------------------------------------------------------------
\* A call whose read of the store ended in a failure or found no store
Failed(c) == calls[c].pc = "done" /\ calls[c].read /\ fetched[c].state # "ok"
\* Milliseconds from the start of call c1 to the start of call c2
Since(c1, c2) == calls[c2].now - calls[c1].now

\* C23: a call that finds no store or fails to read it returns the empty
\* mapping; every later call started less than 5 minutes after it returns the
\* empty mapping without a read, and the first call started 5 minutes or more
\* after it reads the store again.
C23_EmptyForTheWindow ==
    pc = "load" =>
        \A c1 \in Started :
            Failed(c1) =>
                /\ calls[c1].result = CacheOf(<<>>)
                /\ \A c2 \in Started :
                       (c1 < c2 /\ Since(c1, c2) < CACHE_DURATION_MS)
                           => (~calls[c2].read /\ calls[c2].result = CacheOf(<<>>))
                /\ \A c2 \in Started :
                       (/\ c1 < c2
                        /\ Since(c1, c2) >= CACHE_DURATION_MS
                        /\ \A k \in Started : (c1 < k /\ k < c2) => Since(c1, k) < CACHE_DURATION_MS)
                           => calls[c2].read
\* A failed open, a call inside the window answered with the empty mapping
\* and no read, and a call at the end of the window that reads the store
C23_Witness ==
    /\ pc = "load"
    /\ Failed(1) /\ fetched[1].state = "unreadable"
    /\ calls[2].pc = "done" /\ ~calls[2].read /\ calls[2].result = CacheOf(<<>>)
    /\ Since(1, 2) = 0
    /\ calls[3].pc = "done" /\ calls[3].read /\ Since(1, 3) = CACHE_DURATION_MS
    /\ fetched[3].state = "ok" /\ calls[3].result # CacheOf(<<>>)

----------------------------------------------------------------------------
\* A column as text: an absent column is the empty string
ColumnText(x) == IF x = null THEN "" ELSE x
\* The rows of the table that carry the slug k once trimmed and lower-cased
RowsWith(k) == {i \in 1..Len(store.rows) : SlugOf(store.rows[i]) = k}
LastWith(k) == CHOOSE i \in RowsWith(k) : \A j \in RowsWith(k) : j <= i

\* C24: a successful load maps every non-empty trimmed, lower-cased slug of
\* the table, and nothing else, to an entry that carries the slug and the
\* full name, family, base name and six variations of the last row with that
\* slug, absent columns as empty strings.
C24_MappingFromEveryRow ==
    (pc = "build" /\ calls[1].pc = "done") =>
        LET m == calls[1].result.map
        IN  /\ openingsCache = calls[1].result
            /\ DOMAIN m = {SlugOf(store.rows[i]) : i \in 1..Len(store.rows)} \ {<<>>}
            /\ \A k \in DOMAIN m :
                   LET row == store.rows[LastWith(k)]
                   IN  /\ m[k].slug = k
                       /\ m[k].fullName = ColumnText(row.full_name)
                       /\ m[k].family = ColumnText(row.family)
                       /\ m[k].baseName = ColumnText(row.base_name)
                       /\ m[k].var1 = ColumnText(row.variation_1)
                       /\ m[k].var2 = ColumnText(row.variation_2)
                       /\ m[k].var3 = ColumnText(row.variation_3)
                       /\ m[k].var4 = ColumnText(row.variation_4)
                       /\ m[k].var5 = ColumnText(row.variation_5)
                       /\ m[k].var6 = ColumnText(row.variation_6)
\* Two rows with the same slug up to case and blanks, then a row with no
\* slug: one entry, of the second row, its absent family an empty string
C24_Witness ==
    /\ pc = "build" /\ calls[1].pc = "done"
    /\ Len(store.rows) = 3
    /\ store.rows[1].trim_slug = <<"i", "t", "a", "l", "i", "a", "n", "-", "g", "a", "m", "e">>
    /\ store.rows[2].trim_slug = <<" ", "I", "t", "a", "l", "i", "a", "n", "-", "G", "a", "m", "e">>
    /\ store.rows[3].trim_slug = <<>>
    /\ DOMAIN calls[1].result.map = {<<"i", "t", "a", "l", "i", "a", "n", "-", "g", "a", "m", "e">>}
    /\ calls[1].result.map[<<"i", "t", "a", "l", "i", "a", "n", "-", "g", "a", "m", "e">>].fullName = "Giuoco Piano"
    /\ calls[1].result.map[<<"i", "t", "a", "l", "i", "a", "n", "-", "g", "a", "m", "e">>].family = ""

----------------------------------------------------------------------------
\* The number a text of decimal digits writes
RECURSIVE NumberOf(_)
NumberOf(t) ==
    IF t = <<>> THEN 0
    ELSE 10 * NumberOf(SubSeq(t, 1, Len(t) - 1))
         + (CHOOSE n \in 0..9 : DigitChar(n) = t[Len(t)])
\* The tenths of a second an annotation H:MM:SS or H:MM:SS.D stands for
TenthsOf(clk) ==
    LET hms == Split(clk, <<":">>)
        sd == Split(hms[3], <<".">>)
    IN  36000 * NumberOf(hms[1]) + 600 * NumberOf(hms[2]) + 10 * NumberOf(sd[1])
        + (IF Len(sd) = 2 THEN NumberOf(sd[2]) ELSE 0)

\* C25: the reading attached to a move is, in tenths of a second,
\* 36000*H + 600*M + 10*S + D for `[%clk H:MM:SS.D]` and 36000*H + 600*M +
\* 10*S for `[%clk H:MM:SS]`, and it is never negative.
C25_ReadingInTenths ==
    pc = "clocked" =>
        /\ Len(parsed.movesData) = Len(game.plies)
        /\ \A k \in 1..Len(parsed.movesData) :
               /\ parsed.movesData[k].move = game.plies[k].move
               /\ parsed.movesData[k].clock = TenthsOf(game.plies[k].clk)
               /\ parsed.movesData[k].clock >= 0
\* 2:59.9 left after the first move, ten hours after the second
C25_Witness ==
    /\ pc = "clocked"
    /\ Len(game.plies) = 2
    /\ game.plies[1].clk = <<"0", ":", "0", "2", ":", "5", "9", ".", "9">> /\ parsed.movesData[1].clock = 1799
    /\ game.plies[2].clk = <<"1", "0", ":", "0", "0", ":", "0", "0", ".", "0">> /\ parsed.movesData[2].clock = 360000

----------------------------------------------------------------------------
\* The fragment without its leading hyphens and dots, cut at the hyphens,
\* empty tokens left out
LeadEnd(t) ==
    CHOOSE j \in 1..(Len(t) + 1) :
        /\ \A k \in 1..(j - 1) : t[k] \in {"-", "."}
        /\ j <= Len(t) => t[j] \notin {"-", "."}
FragmentTokens(t) ==
    SelectSeq(Split(SubSeq(t, LeadEnd(t), Len(t)), <<"-">>), LAMBDA x : x # <<>>)
\* The image of one token: digits with up to two dots become digits and one
\* dot, every other token is kept
DigitsAndDots(t, n) ==
    /\ Len(t) > n
    /\ \A k \in 1..(Len(t) - n) : t[k] \in Digits
    /\ \A k \in (Len(t) - n + 1)..Len(t) : t[k] = "."
ImageOf(t) ==
    IF DigitsAndDots(t, 0) THEN t \o <<".">>
    ELSE IF DigitsAndDots(t, 1) THEN t
    ELSE IF DigitsAndDots(t, 2) THEN SubSeq(t, 1, Len(t) - 1)
    ELSE t

\* C26: formatExtraMoves has a value for every fragment, and the value is
\* the images of the fragment's tokens, one per token and in their order,
\* separated by single spaces: the look-ahead after a move number changes
\* nothing.
C26_TokenwiseImage ==
    pc = "formatted" =>
        LET tokens == FragmentTokens(eco.extraMoves)
            shown == IF eco.formatted = <<>> THEN <<>> ELSE Split(eco.formatted, <<" ">>)
        IN  /\ eco.formatted = Join([k \in 1..Len(tokens) |-> ImageOf(tokens[k])], <<" ">>)
            /\ Len(shown) = Len(tokens)
\* A White marker written with two dots, followed by two moves
C26_Witness ==
    /\ pc = "formatted"
    /\ eco.extraMoves = <<"-", "5", ".", ".", "-", "g", "3", "-", "N", "f", "6">>
    /\ eco.formatted = <<"5", ".", " ", "g", "3", " ", "N", "f", "6">>

----------------------------------------------------------------------------
\* Call c settles in this step with the mapping it read
Settles(c) == calls[c].pc # "done" /\ calls'[c].pc = "done" /\ calls'[c].read
\* The cache holds what call c stored
WrittenBy(c) ==
    /\ calls[c].pc = "done" /\ calls[c].read
    /\ openingsCache = calls[c].result /\ lastCacheTime = calls[c].now

\* C27: under any interleaving of overlapping calls the cache and its time
\* stamp are those of one load, the time stamp never decreases, and a load
\* that started earlier and settles later leaves alone what a load that
\* started later has stored.
C27_NewestLoadKept ==
    [][/\ lastCacheTime' >= lastCacheTime
       /\ (lastCacheTime' # 0 \/ ~openingsCache'.isNull)
              => \E c \in Calls : calls'[c].pc = "done" /\ calls'[c].read
                                 /\ openingsCache' = calls'[c].result
                                 /\ lastCacheTime' = calls'[c].now
       /\ \A c \in Calls :
              (Settles(c) /\ \E c2 \in Calls : calls[c2].now > calls'[c].now /\ WrittenBy(c2))
                  => UNCHANGED <<openingsCache, lastCacheTime>>]_vars

----------------------------------------------------------------------------
\* The ledger a tracker holds before call k of the log: the one loaded from
\* the games table, then the one the previous call left
LedgerBefore(k) == IF k = 1 THEN loadFromDatabase(table) ELSE log[k - 1].ledger

\* The entry of a format in a ledger
LedgerEntry(l, format) ==
    IF format \in DOMAIN l THEN [has |-> TRUE, value |-> l[format]]
    ELSE [has |-> FALSE, value |-> 0]

\* The earlier calls of the log that passed a non-null rating for the
\* format of call k
PassedBefore(k) ==
    {j \in 1..(k - 1) : log[j].format = log[k].format /\ ~log[j].rating.isNull}

\* The most recent non-null rating passed for the format of call k, else
\* the value loaded from the table, else null
MostRecentRating(k) ==
    IF PassedBefore(k) # {}
    THEN log[CHOOSE j \in PassedBefore(k) : \A i \in PassedBefore(k) : i <= j].rating
    ELSE IF log[k].format \in DOMAIN loadFromDatabase(table)
         THEN RatingOf(loadFromDatabase(table)[log[k].format])
         ELSE NoRating

DeltaOf(currentRating, before) ==
    IF ~currentRating.isNull /\ ~before.isNull
    THEN RatingOf(currentRating.value - before.value)
    ELSE NoRating

C28_CallIsRight(k) ==
    /\ log[k].before = MostRecentRating(k)
    /\ log[k].delta = DeltaOf(log[k].rating, log[k].before)
    /\ \A format \in Formats \ {log[k].format} :
          LedgerEntry(log[k].ledger, format) = LedgerEntry(LedgerBefore(k), format)
    /\ log[k].rating.isNull => log[k].ledger = LedgerBefore(k)

\* C28: in any sequence of calculateRating calls the `before` returned for a
\* format is the most recent non-null rating passed earlier for that format
\* (or the value loaded from the database, or null when there is none),
\* `delta` is currentRating - before when both are non-null and null
\* otherwise, the ledger entries of the other formats are unchanged, and a
\* call with a null rating leaves the whole ledger unchanged
C28_BeforeIsMostRecentRating ==
    \A k \in 1..Len(log) : C28_CallIsRight(k)

\* The same, for the sequences of calls in which no rating passed is 0
C28_WithoutZero ==
    (\A j \in 1..Len(log) : log[j].rating # RatingOf(0))
        => \A k \in 1..Len(log) : C28_CallIsRight(k)

----------------------------------------------------------------------------
\* The stored game has the ratings columns the first run of main wrote
SameRatingsAsFirstRun(id) ==
    /\ id \in DOMAIN fetch.firstRun
    /\ table[id].rating_before = fetch.firstRun[id].rating_before
    /\ table[id].rating_delta = fetch.firstRun[id].rating_delta

\* C29: fetching is repeatable: when main has run a second time over the
\* same archives, every stored game's rating_before and rating_delta equal
\* the values written by the first run
C29_SecondRunRepeatsFirst ==
    pc = "fetched" => \A id \in DOMAIN table : SameRatingsAsFirstRun(id)

\* The rating of the chronologically preceding game of the same format,
\* null for the first game of a format
PrecedingRating(t, id) ==
    LET earlier == {j \in DOMAIN t : /\ t[j].format = t[id].format
                                     /\ t[j].end_epoch < t[id].end_epoch}
    IN  IF earlier = {} THEN NoRating
        ELSE t[CHOOSE j \in earlier : \A i \in earlier : t[i].end_epoch <= t[j].end_epoch].my_rating

\* What the first run of main writes: rating_before is the rating of the
\* chronologically preceding game of the same format
C29_FirstRunChronological ==
    fetch.run = 2 =>
        \A id \in DOMAIN fetch.firstRun :
            fetch.firstRun[id].rating_before = PrecedingRating(fetch.firstRun, id)

----------------------------------------------------------------------------
\* The URL is empty or no base slug can be split from it
NoBaseSlug(url) == url = <<>> \/ splitEcoUrl(url).baseSlug = <<>>

\* Call g of getOpeningDataForGame is made in this step, with such a URL
CalledWithoutSlug(g) ==
    /\ gets[g].pc = "idle" /\ gets'[g].pc # "idle"
    /\ NoBaseSlug(gets'[g].ecoUrl)

\* C30: getOpeningDataForGame called with an empty URL, or with a URL from
\* which no base slug can be split, returns the all-empty result without
\* calling loadOpeningsDb: no backing-store read happens and openingsCache
\* and lastCacheTime are left unchanged
C30_NoSlugNoLoad ==
    [][\A g \in Gets :
          CalledWithoutSlug(g) =>
              /\ gets'[g].pc = "done"
              /\ gets'[g].data = emptyData
              /\ calls'[g] = idleCall
              /\ reads' = reads
              /\ store' = store
              /\ openingsCache' = openingsCache
              /\ lastCacheTime' = lastCacheTime]_vars

\* An earlier call has filled the cache from the store, and a later call made
\* with a non-empty URL without a base slug has returned the empty result
C30_Witness ==
    /\ gets[1].pc = "done" /\ ~NoBaseSlug(gets[1].ecoUrl)
    /\ ~openingsCache.isNull /\ reads = 1
    /\ gets[2].pc = "done" /\ gets[2].ecoUrl # <<>> /\ NoBaseSlug(gets[2].ecoUrl)
    /\ gets[2].data = emptyData /\ calls[2] = idleCall
====
